---- MODULE Spec2Model ----
(***************************************************************************)
(* Model of criteo/netopticon's schema-driven SNMP walker (package         *)
(* snmpmagic): the OID value, the OID prefix trie (Insert, FindNext,       *)
(* PrefixPaths), the per-type trie cache (BuildOIDTree), the walker        *)
(* (Query, HandlePDU) and the map-row helper (getOrCreateMapElement).      *)
(*                                                                         *)
(* Go slices are 0-based, TLA+ sequences 1-based: s[i] in the source is    *)
(* s[i+1] here, s[a:] is SubSeq(s, a+1, Len(s)), s[:b] is SubSeq(s, 1, b). *)
(* A Go panic is modelled as an outcome (panic |-> TRUE) that every caller *)
(* propagates; what was mutated before the panic stays mutated.            *)
(***************************************************************************)
EXTENDS Integers, Sequences, FiniteSets, TLC

(***************************************************************************)
(* Bounds of the model.                                                    *)
(***************************************************************************)
\* Longest schema path drawn as an input of Insert.
MaxPathLen == 2
\* Number of Insert calls on one trie.
MaxInserts == 3

(***************************************************************************)
(* OID (src/snmpmagic/oid.go)                                              *)
(***************************************************************************)
RECURSIVE LcpFrom(_, _, _)
\* The loop of LongestCommonPrefixLength, started with prefixLen = n.
LcpFrom(a, b, n) ==
    LET minLength == IF Len(b) < Len(a) THEN Len(b) ELSE Len(a)
    IN  IF n < minLength /\ a[n + 1] = b[n + 1] THEN LcpFrom(a, b, n + 1) ELSE n

LongestCommonPrefixLength(self, other) == LcpFrom(self, other, 0)

\* s[a:] of the source.
SliceFrom(s, a) == SubSeq(s, a + 1, Len(s))

\* s[:b] of the source.
SliceTo(s, b) == SubSeq(s, 1, b)

IsPrefixOf(p, q) == Len(p) <= Len(q) /\ SliceTo(q, Len(p)) = p

IsProperPrefixOf(p, q) == IsPrefixOf(p, q) /\ p # q

(***************************************************************************)
(* Text. A Go string is a sequence of one-character strings.               *)
(***************************************************************************)
Digits == <<"0", "1", "2", "3", "4", "5", "6", "7", "8", "9">>

IsDigit(c) == \E i \in 1..10 : Digits[i] = c

DigitValue(c) == (CHOOSE i \in 1..10 : Digits[i] = c) - 1

RECURSIVE Split(_, _)
\* strings.Split(str, sep) for a one-character sep: at least one part.
Split(str, sep) ==
    IF \A i \in 1..Len(str) : str[i] # sep THEN <<str>>
    ELSE LET i == CHOOSE j \in 1..Len(str) :
                      str[j] = sep /\ \A k \in 1..(j - 1) : str[k] # sep
         IN  <<SliceTo(str, i - 1)>> \o Split(SliceFrom(str, i), sep)

RECURSIVE DecimalValue(_)
DecimalValue(part) ==
    IF part = <<>> THEN 0
    ELSE DecimalValue(SliceTo(part, Len(part) - 1)) * 10 + DigitValue(part[Len(part)])

\* strconv.ParseUint(part, 10, 64): an error for the empty text and for any
\* character that is no decimal digit (a sign included). The arcs of the
\* model stay far below 2^64, where ParseUint reports a range error.
ParseUint(part) ==
    IF part = <<>> \/ \E i \in 1..Len(part) : ~IsDigit(part[i])
    THEN [err |-> TRUE, value |-> 0]
    ELSE [err |-> FALSE, value |-> DecimalValue(part)]

RECURSIVE DropLeadingEmpty(_)
DropLeadingEmpty(parts) ==
    IF Len(parts) > 0 /\ parts[1] = <<>> THEN DropLeadingEmpty(Tail(parts)) ELSE parts

RECURSIVE ParseParts(_)
\* The loop of ParseOID over the parts: the first failing part ends it.
ParseParts(parts) ==
    IF parts = <<>> THEN [err |-> FALSE, oid |-> <<>>]
    ELSE LET partUint == ParseUint(Head(parts))
             rest == ParseParts(Tail(parts))
         IN  IF partUint.err \/ rest.err
             THEN [err |-> TRUE, oid |-> <<>>]
             ELSE [err |-> FALSE, oid |-> <<partUint.value>> \o rest.oid]

\* ParseOID: err, or the OID.
ParseOID(str) == ParseParts(DropLeadingEmpty(Split(str, ".")))

RECURSIVE FormatUint(_)
\* fmt.Fprint of a uint: its decimal digits.
FormatUint(n) ==
    IF n < 10 THEN <<Digits[n + 1]>>
    ELSE FormatUint(n \div 10) \o <<Digits[(n % 10) + 1]>>

RECURSIVE OIDStringFrom(_, _)
\* The loop of OID.String from index i (0-based).
OIDStringFrom(self, i) ==
    IF i >= Len(self) THEN <<>>
    ELSE FormatUint(self[i + 1])
         \o (IF i # Len(self) - 1 THEN <<".">> ELSE <<>>)
         \o OIDStringFrom(self, i + 1)

\* An OID written with the dot in front, as net-snmp prints it.
OIDStringDotted(self) == IF Len(self) = 0 THEN <<>> ELSE <<".">> \o OIDStringFrom(self, 0)

OIDString(self) == OIDStringFrom(self, 0)

(***************************************************************************)
(* OID trie (src/unnamed/part_001)                                         *)
(***************************************************************************)
UninitializedNode == 0
SimpleNode == 1
SuffixCatcherNode == 2
LeafNode == 3

\* fieldQualifiedName "" of a node without a field. A qualified name is a
\* sequence of numbers and that of a field is not empty.
NoName == <<>>

\* make(map[uint]*OIDTree)
NoChildren == [k \in {} |-> 0]

NewOIDTree ==
    [prefix |-> <<>>, children |-> NoChildren, fieldIndex |-> -1,
     fieldQualifiedName |-> NoName, nodeType |-> UninitializedNode]

\* IsLeaf that takes no node for a leaf.
NeverLeaf(self) == FALSE

IsLeaf(self) == self.nodeType = LeafNode

IsSuffixCatching(self) == self.nodeType = SuffixCatcherNode

RECURSIVE Insert(_, _, _, _, _)
RECURSIVE createOrUpdateChild(_, _, _, _, _)

\* createOrUpdateChild that adds the child to a leaf as to any other node.
createOrUpdateChildOfLeaf(self, path, fieldIndex, fieldQualifiedName, nodeType) ==
    LET key == path[1]
        childPath == Tail(path)
    IN  IF key \in DOMAIN self.children
        THEN LET r == Insert(self.children[key], childPath, fieldIndex,
                             fieldQualifiedName, nodeType)
             IN  [node |-> [self EXCEPT !.children[key] = r.node],
                  panic |-> r.panic]
        ELSE [node |-> [self EXCEPT !.children = self.children @@
                            (key :> [prefix |-> childPath,
                                     children |-> NoChildren,
                                     fieldIndex |-> fieldIndex,
                                     fieldQualifiedName |-> fieldQualifiedName,
                                     nodeType |-> nodeType])],
              panic |-> FALSE]

\* createOrUpdateChild on node self; the result is the node afterwards and
\* whether the call panicked.
createOrUpdateChild(self, path, fieldIndex, fieldQualifiedName, nodeType) ==
    LET key == path[1]
        childPath == Tail(path)
    IN  IF key \in DOMAIN self.children
        THEN LET r == Insert(self.children[key], childPath, fieldIndex,
                             fieldQualifiedName, nodeType)
             IN  [node |-> [self EXCEPT !.children[key] = r.node],
                  panic |-> r.panic]
        ELSE IF IsLeaf(self)
        THEN [node |-> self, panic |-> TRUE]
        ELSE [node |-> [self EXCEPT !.children = self.children @@
                            (key :> [prefix |-> childPath,
                                     children |-> NoChildren,
                                     fieldIndex |-> fieldIndex,
                                     fieldQualifiedName |-> fieldQualifiedName,
                                     nodeType |-> nodeType])],
              panic |-> FALSE]

\* Insert on node self. With commonLen = -1 the index expression
\* self.prefix[commonLen] panics before anything of self is assigned.
Insert(self, path, fieldIndex, fieldQualifiedName, nodeType) ==
    IF self.nodeType = UninitializedNode
    THEN [node |-> [self EXCEPT !.prefix = path,
                                !.fieldIndex = fieldIndex,
                                !.fieldQualifiedName = fieldQualifiedName,
                                !.nodeType = nodeType],
          panic |-> FALSE]
    ELSE LET lcp == LongestCommonPrefixLength(self.prefix, path)
         IN  IF lcp = Len(self.prefix) /\ lcp < Len(path)
             THEN createOrUpdateChild(self, SliceFrom(path, lcp), fieldIndex,
                                      fieldQualifiedName, nodeType)
             ELSE LET commonLen == IF lcp = Len(path) THEN lcp - 1 ELSE lcp
                  IN  IF commonLen < 0
                      THEN [node |-> self, panic |-> TRUE]
                      ELSE LET moved ==
                                   [prefix |-> SliceFrom(self.prefix, commonLen + 1),
                                    children |-> self.children,
                                    fieldIndex |-> self.fieldIndex,
                                    fieldQualifiedName |-> self.fieldQualifiedName,
                                    nodeType |-> self.nodeType]
                               split ==
                                   [prefix |-> SliceTo(self.prefix, commonLen),
                                    children |-> (self.prefix[commonLen + 1] :> moved),
                                    fieldIndex |-> -1,
                                    fieldQualifiedName |-> NoName,
                                    nodeType |-> SimpleNode]
                           IN  createOrUpdateChild(split, SliceFrom(path, commonLen),
                                                   fieldIndex, fieldQualifiedName,
                                                   nodeType)

\* FindNext: found is FALSE for a nil next node.
FindNext(self, path) ==
    LET prefixLen == LongestCommonPrefixLength(self.prefix, path)
        remainingPath == SliceFrom(path, prefixLen)
    IN  IF prefixLen # Len(self.prefix)
        THEN [found |-> FALSE, next |-> self, remainder |-> path]
        ELSE IF Len(remainingPath) = 0
        THEN [found |-> TRUE, next |-> self, remainder |-> <<>>]
        ELSE IF remainingPath[1] \in DOMAIN self.children
        THEN [found |-> TRUE, next |-> self.children[remainingPath[1]],
              remainder |-> Tail(remainingPath)]
        ELSE [found |-> FALSE, next |-> self, remainder |-> path]

RECURSIVE SeqOfSet(_)
\* The elements of a finite set of numbers, in ascending order.
SeqOfSet(S) ==
    IF S = {} THEN <<>>
    ELSE LET m == CHOOSE x \in S : \A y \in S : x <= y
         IN  <<m>> \o SeqOfSet(S \ {m})

RECURSIVE Prefixed(_, _)
\* The paths of sub, each after head.
Prefixed(head, sub) ==
    IF sub = <<>> THEN <<>>
    ELSE <<head \o Head(sub)>> \o Prefixed(head, Tail(sub))

RECURSIVE PrefixPaths(_)
RECURSIVE ChildPrefixPaths(_, _)

\* The body of the loop over self.children, for the keys in ks. Go ranges
\* over a map in an unspecified order; the keys are taken in ascending order
\* here, and PrefixPathsOrders below gives every order.
ChildPrefixPaths(self, ks) ==
    IF ks = <<>> THEN <<>>
    ELSE LET key == Head(ks)
             sub == PrefixPaths(self.children[key])
         IN  Prefixed(self.prefix \o <<key>>, sub) \o ChildPrefixPaths(self, Tail(ks))

\* Variants of PrefixPaths: one where a leaf gives its own path, one that
\* descends below a suffix-catcher.
PrefixPathsWithLeaves(self) ==
    IF IsLeaf(self) \/ IsSuffixCatching(self) THEN <<self.prefix>>
    ELSE ChildPrefixPaths(self, SeqOfSet(DOMAIN self.children))

PrefixPathsBelowMaps(self) ==
    IF IsLeaf(self) THEN <<>>
    ELSE IF IsSuffixCatching(self) /\ DOMAIN self.children = {} THEN <<self.prefix>>
    ELSE ChildPrefixPaths(self, SeqOfSet(DOMAIN self.children))

PrefixPaths(self) ==
    IF IsLeaf(self) THEN <<>>
    ELSE IF IsSuffixCatching(self) THEN <<self.prefix>>
    ELSE ChildPrefixPaths(self, SeqOfSet(DOMAIN self.children))

RECURSIVE PrefixPathsOrders(_), ChildPrefixPathsOrders(_, _)
\* `for key, child := range self.children` visits the children in an order
\* the language leaves open: the results PrefixPaths can give.
ChildPrefixPathsOrders(self, ks) ==
    IF ks = {} THEN {<<>>}
    ELSE UNION {{Prefixed(self.prefix \o <<k>>, sub) \o rest :
                    sub \in PrefixPathsOrders(self.children[k]),
                    rest \in ChildPrefixPathsOrders(self, ks \ {k})} : k \in ks}

PrefixPathsOrders(self) ==
    IF IsLeaf(self) THEN {<<>>}
    ELSE IF IsSuffixCatching(self) THEN {<<self.prefix>>}
    ELSE ChildPrefixPathsOrders(self, DOMAIN self.children)

(***************************************************************************)
(* Record types as reflect sees them. Kinds are reflect's; the name of a   *)
(* type or of a field is a number (0 for the name "" of an unnamed type).  *)
(***************************************************************************)
ScalarT(kind) == [kind |-> kind, name |-> 0]

\* []elem
SliceT(elem) == [kind |-> "slice", name |-> 0, elem |-> elem]

\* *elem
PtrT(elem) == [kind |-> "ptr", name |-> 0, elem |-> elem]

\* type OID []uint of package snmpmagic; 1 stands for its name.
OIDT == [kind |-> "slice", name |-> 1, elem |-> ScalarT("uint")]

\* map[key]elem, key given by its kind
MapT(key, elem) == [kind |-> "map", name |-> 0, key |-> key, elem |-> elem]

\* type name struct { fields }
StructT(name, fields) == [kind |-> "struct", name |-> name, fields |-> fields]

\* A struct field: its name, whether the name starts with a lower-case
\* letter, the text of its `snmp` tag (empty: no tag) and its type.
FieldT(name, lowerFirst, tag, type) ==
    [name |-> name, lowerFirst |-> lowerFirst, tag |-> tag, type |-> type]

\* t.Name() of the type prepare recurses into.
TypeName(t) == t.name

(***************************************************************************)
(* Schema introspection (src/unnamed/part_001, prepare)                    *)
(***************************************************************************)
RECURSIVE prepare(_, _, _, _)
RECURSIVE prepareFields(_, _, _, _, _)

\* The loop of prepare with `continue` at a field without an snmp tag.
prepareFieldsSkipping(self, t, prefix, parentName, fieldIndex) ==
    IF fieldIndex >= Len(t.fields)
    THEN [node |-> self, err |-> FALSE, panic |-> FALSE, parseFailed |-> FALSE]
    ELSE
    LET field == t.fields[fieldIndex + 1]
        snmpTagOid == ParseOID(field.tag)
        path == prefix \o snmpTagOid.oid
        fieldQualifiedName == <<parentName, field.name>>
        nodeType == IF field.type.kind = "struct" THEN SimpleNode
                    ELSE IF field.type.kind = "map" THEN SuffixCatcherNode
                    ELSE LeafNode
        ins == Insert(self, path, fieldIndex, fieldQualifiedName, nodeType)
        nestedType == IF field.type.kind = "map" THEN field.type.elem ELSE field.type
        nested == IF nodeType = LeafNode
                  THEN [node |-> ins.node, err |-> FALSE, panic |-> FALSE,
                        parseFailed |-> FALSE]
                  ELSE prepare(ins.node, nestedType, path, TypeName(nestedType))
        rest == prepareFields(nested.node, t, prefix, parentName, fieldIndex + 1)
    IN  IF field.tag = <<>>
        THEN prepareFields(self, t, prefix, parentName, fieldIndex + 1)
        ELSE IF field.lowerFirst
        THEN prepareFields(self, t, prefix, parentName, fieldIndex + 1)
        ELSE IF snmpTagOid.err
        THEN [node |-> self, err |-> TRUE, panic |-> FALSE, parseFailed |-> TRUE]
        ELSE IF ins.panic
        THEN [node |-> ins.node, err |-> FALSE, panic |-> TRUE, parseFailed |-> FALSE]
        ELSE IF nested.panic
        THEN [node |-> nested.node, err |-> FALSE, panic |-> TRUE,
              parseFailed |-> nested.parseFailed]
        ELSE [rest EXCEPT !.parseFailed = nested.parseFailed \/ rest.parseFailed]

\* The loop of prepare over the fields of struct type t, from fieldIndex on.
\* The result is the trie afterwards, whether an error is returned, whether
\* the call panicked, and (for the properties) whether some ParseOID call
\* of this call or of a nested one failed. The errors of the nested calls
\* are not looked at by the source.
prepareFields(self, t, prefix, parentName, fieldIndex) ==
    IF fieldIndex >= Len(t.fields)
    THEN [node |-> self, err |-> FALSE, panic |-> FALSE, parseFailed |-> FALSE]
    ELSE
    LET field == t.fields[fieldIndex + 1]
        snmpTagOid == ParseOID(field.tag)
        path == prefix \o snmpTagOid.oid
        fieldQualifiedName == <<parentName, field.name>>
        nodeType == IF field.type.kind = "struct" THEN SimpleNode
                    ELSE IF field.type.kind = "map" THEN SuffixCatcherNode
                    ELSE LeafNode
        ins == Insert(self, path, fieldIndex, fieldQualifiedName, nodeType)
        nestedType == IF field.type.kind = "map" THEN field.type.elem ELSE field.type
        nested == IF nodeType = LeafNode
                  THEN [node |-> ins.node, err |-> FALSE, panic |-> FALSE,
                        parseFailed |-> FALSE]
                  ELSE prepare(ins.node, nestedType, path, TypeName(nestedType))
        rest == prepareFields(nested.node, t, prefix, parentName, fieldIndex + 1)
    IN  IF field.tag = <<>>
        THEN [node |-> self, err |-> FALSE, panic |-> FALSE, parseFailed |-> FALSE]
        ELSE IF field.lowerFirst
        THEN prepareFields(self, t, prefix, parentName, fieldIndex + 1)
        ELSE IF snmpTagOid.err
        THEN [node |-> self, err |-> TRUE, panic |-> FALSE, parseFailed |-> TRUE]
        ELSE IF ins.panic
        THEN [node |-> ins.node, err |-> FALSE, panic |-> TRUE, parseFailed |-> FALSE]
        ELSE IF nested.panic
        THEN [node |-> nested.node, err |-> FALSE, panic |-> TRUE,
              parseFailed |-> nested.parseFailed]
        ELSE [rest EXCEPT !.parseFailed = nested.parseFailed \/ rest.parseFailed]

\* prepare on trie self for type t. t.NumField() panics for a type that is
\* no struct.
prepare(self, t, prefix, parentName) ==
    IF t.kind = "ptr"
    THEN LET r == prepare(self, t.elem, prefix, TypeName(t.elem))
         IN  [r EXCEPT !.err = FALSE]
    ELSE IF t.kind # "struct"
    THEN [node |-> self, err |-> FALSE, panic |-> TRUE, parseFailed |-> FALSE]
    ELSE prepareFields(self, t, prefix, parentName, 0)

(***************************************************************************)
(* Values of a destination record. A struct is the sequence of its fields, *)
(* a map is [nil, elems] with elems from keys to the records its pointers  *)
(* point to, a pointer field is nil, a string and a slice are sequences.   *)
(***************************************************************************)
NoElems == [k \in {} |-> 0]

\* A []byte: the array it points into and its bytes. The arrays of the
\* transport are numbered from 1; NilArray is that of the nil slice and
\* CopyOf(a) the array a call of make allocates to copy array a into.
Bytes(array, bytes) == [array |-> array, bytes |-> bytes]

NilArray == [owner |-> "nil", of |-> 0]

TransportArray(n) == [owner |-> "gosnmp", of |-> n]

CopyOf(array) == [owner |-> "snmpmagic", of |-> array.of]

IsBytesType(t) == t.kind = "slice" /\ t.elem.kind = "uint8"

RECURSIVE Zero(_)
RECURSIVE ZeroFields(_)
\* The zero values of the fields of a struct.
ZeroFields(fields) ==
    IF fields = <<>> THEN <<>>
    ELSE <<Zero(Head(fields).type)>> \o ZeroFields(Tail(fields))

\* The zero value of type t.
Zero(t) ==
    IF t.kind = "struct" THEN ZeroFields(t.fields)
    ELSE IF t.kind = "map" THEN [nil |-> TRUE, elems |-> NoElems]
    ELSE IF t.kind = "ptr" THEN [nil |-> TRUE]
    ELSE IF t.kind = "bool" THEN FALSE
    ELSE IF IsBytesType(t) THEN Bytes(NilArray, <<>>)
    ELSE IF t.kind \in {"string", "slice"} THEN <<>>
    ELSE 0

\* A reflect.Value: where it points into the destination (ref: a sequence of
\* field and map-key steps), its type, whether it is valid (not the zero
\* Value) and whether it can be set.
FieldStep(i) == [step |-> "field", at |-> i]
KeyStep(k) == [step |-> "key", at |-> k]

RECURSIVE GetAt(_, _)
GetAt(v, ref) ==
    IF ref = <<>> THEN v
    ELSE IF Head(ref).step = "field" THEN GetAt(v[Head(ref).at + 1], Tail(ref))
    ELSE GetAt(v.elems[Head(ref).at], Tail(ref))

RECURSIVE SetAt(_, _, _)
SetAt(v, ref, x) ==
    IF ref = <<>> THEN x
    ELSE IF Head(ref).step = "field"
    THEN [v EXCEPT ![Head(ref).at + 1] = SetAt(v[Head(ref).at + 1], Tail(ref), x)]
    ELSE [v EXCEPT !.elems[Head(ref).at] = SetAt(v.elems[Head(ref).at], Tail(ref), x)]

\* reflect.ValueOf(destination): destination is a pointer to the record (or
\* the record itself, which then cannot be set).
ValueOfDestination(destType) ==
    [ref |-> <<>>, type |-> destType, valid |-> TRUE, canSet |-> FALSE]

InvalidValue == [ref |-> <<>>, type |-> ScalarT("invalid"), valid |-> FALSE, canSet |-> FALSE]

RECURSIVE Deref(_)
\* for value.Kind() == reflect.Ptr { value = value.Elem() }. The pointer to
\* the destination is not nil; the pointer fields of a record are nil, and
\* Elem() of a nil pointer is the zero Value.
Deref(value) ==
    IF value.type.kind # "ptr" THEN value
    ELSE IF value.ref = <<>>
    THEN Deref([ref |-> <<>>, type |-> value.type.elem, valid |-> TRUE, canSet |-> TRUE])
    ELSE InvalidValue

(***************************************************************************)
(* PDU values. A PDU is [name, type, value]; name is text, type the ASN.1  *)
(* tag, value the payload with its Go type: [gotype, v].                   *)
(***************************************************************************)
GoValue(gotype, v) == [gotype |-> gotype, v |-> v]

PDU(name, type, value) == [name |-> name, type |-> type, value |-> value]

UnsignedTags == {"Counter32", "Counter64", "Gauge32", "TimeTicks", "Uinteger32"}

\* value.SetX(x) at a value that cannot be set panics.
SetValue(dest, value, x) ==
    IF value.canSet
    THEN [dest |-> SetAt(dest, value.ref, x), panic |-> FALSE]
    ELSE [dest |-> dest, panic |-> TRUE]

Unchanged(dest) == [dest |-> dest, panic |-> FALSE]

Panicked(dest) == [dest |-> dest, panic |-> TRUE]

\* bytesValCopy := make([]byte, len(bytesVal)); copy(bytesValCopy, bytesVal)
\* and, as a variant, the slice itself.
SameBytes(bytesVal) == bytesVal

CopyBytes(bytesVal) == Bytes(CopyOf(bytesVal.array), bytesVal.bytes)

\* A bool set from a number as C reads one: zero is false, all else true.
SetBoolFromTruthiness(dest, value, n) == SetValue(dest, value, n # 0)

\* The {1, 2} mapping of an integer into a bool field.
SetBoolFromNumber(dest, value, n) ==
    IF n = 1 THEN SetValue(dest, value, TRUE)
    ELSE IF n = 2 THEN SetValue(dest, value, FALSE)
    ELSE Panicked(dest)

\* deserializePDUToValue: the destination afterwards and whether it
\* panicked. A failed type assertion on pdu.Value panics. A mismatch of tag
\* and field kind is logged and nothing is set.
deserializePDUToValue(dest, pdu, value) ==
    LET kind == value.type.kind
    IN  IF pdu.type = "Integer"
        THEN IF pdu.value.gotype \notin {"int64", "int"} THEN Panicked(dest)
             ELSE IF kind = "bool" THEN SetBoolFromNumber(dest, value, pdu.value.v)
             ELSE IF kind \in {"int", "int32", "int64"} THEN SetValue(dest, value, pdu.value.v)
             ELSE Unchanged(dest)
        ELSE IF pdu.type \in UnsignedTags
        THEN IF pdu.value.gotype \notin {"uint64", "uint"} THEN Panicked(dest)
             ELSE IF kind = "bool" THEN SetBoolFromNumber(dest, value, pdu.value.v)
             ELSE IF kind \in {"uint", "uint32", "uint64"} THEN SetValue(dest, value, pdu.value.v)
             ELSE Unchanged(dest)
        ELSE IF pdu.type = "OctetString"
        THEN IF pdu.value.gotype # "[]byte" THEN Panicked(dest)
             ELSE IF kind = "slice"
             THEN IF value.type.elem.kind = "uint8"
                  THEN SetValue(dest, value, CopyBytes(pdu.value.v))
                  ELSE Panicked(dest)
             ELSE IF kind = "string" THEN SetValue(dest, value, pdu.value.v.bytes)
             ELSE Unchanged(dest)
        ELSE IF pdu.type = "ObjectIdentifier"
        THEN IF kind = "string"
             THEN IF pdu.value.gotype # "string" THEN Panicked(dest)
                  ELSE SetValue(dest, value, pdu.value.v)
             ELSE IF kind = "slice" /\ value.type = OIDT
             THEN IF pdu.value.gotype # "string" THEN Panicked(dest)
                  ELSE LET oid == ParseOID(pdu.value.v)
                       IN  IF oid.err THEN Unchanged(dest)
                           ELSE SetValue(dest, value, oid.oid)
             ELSE Unchanged(dest)
        ELSE Unchanged(dest)

(***************************************************************************)
(* Map rows (src/unnamed/part_000, getOrCreateMapElement)                  *)
(***************************************************************************)
\* getOrCreateMapElement with the key taken from the first arc of path.
getOrCreateMapElementByFirstArc(dest, value, path) ==
    LET valueType == value.type
        failed(d) == [dest |-> d, elem |-> value, remainder |-> <<>>,
                      err |-> TRUE, panic |-> FALSE]
        isNil == GetAt(dest, value.ref).nil
        withMap == IF isNil
                   THEN SetAt(dest, value.ref, [nil |-> FALSE, elems |-> NoElems])
                   ELSE dest
        mapKeyIndex == 0
        mapKey == path[mapKeyIndex + 1]
        mapKeyValue == IF valueType.key = "string" THEN FormatUint(mapKey) ELSE mapKey
        elems == GetAt(withMap, value.ref).elems
        withElem == IF mapKeyValue \in DOMAIN elems
                    THEN withMap
                    ELSE SetAt(withMap, value.ref,
                               [nil |-> FALSE,
                                elems |-> elems @@ (mapKeyValue :> Zero(valueType.elem.elem))])
    IN  IF ~value.valid
        THEN [dest |-> dest, elem |-> value, remainder |-> <<>>,
              err |-> FALSE, panic |-> TRUE]
        ELSE IF valueType.kind # "map" THEN failed(dest)
        ELSE IF valueType.elem.kind # "ptr" THEN failed(dest)
        ELSE IF isNil /\ ~value.canSet THEN failed(dest)
        ELSE IF Len(path) = 0 THEN failed(withMap)
        ELSE IF valueType.key \notin {"string", "uint"} THEN failed(withMap)
        ELSE [dest |-> withElem,
              elem |-> [ref |-> Append(value.ref, KeyStep(mapKeyValue)),
                        type |-> valueType.elem.elem,
                        valid |-> TRUE, canSet |-> TRUE],
              remainder |-> Tail(path),
              err |-> FALSE, panic |-> FALSE]

\* The result: the destination afterwards, the element (elem), the
\* remainder, whether an error is returned and whether the call panicked.
\* value.Type() panics for the zero Value.
getOrCreateMapElement(dest, value, path) ==
    LET valueType == value.type
        failed(d) == [dest |-> d, elem |-> value, remainder |-> <<>>,
                      err |-> TRUE, panic |-> FALSE]
        isNil == GetAt(dest, value.ref).nil
        withMap == IF isNil
                   THEN SetAt(dest, value.ref, [nil |-> FALSE, elems |-> NoElems])
                   ELSE dest
        mapKeyIndex == Len(path) - 1
        mapKey == path[mapKeyIndex + 1]
        mapKeyValue == IF valueType.key = "string" THEN FormatUint(mapKey) ELSE mapKey
        elems == GetAt(withMap, value.ref).elems
        withElem == IF mapKeyValue \in DOMAIN elems
                    THEN withMap
                    ELSE SetAt(withMap, value.ref,
                               [nil |-> FALSE,
                                elems |-> elems @@ (mapKeyValue :> Zero(valueType.elem.elem))])
    IN  IF ~value.valid
        THEN [dest |-> dest, elem |-> value, remainder |-> <<>>,
              err |-> FALSE, panic |-> TRUE]
        ELSE IF valueType.kind # "map" THEN failed(dest)
        ELSE IF valueType.elem.kind # "ptr" THEN failed(dest)
        ELSE IF isNil /\ ~value.canSet THEN failed(dest)
        ELSE IF Len(path) = 0 THEN failed(withMap)
        ELSE IF valueType.key \notin {"string", "uint"} THEN failed(withMap)
        ELSE [dest |-> withElem,
              elem |-> [ref |-> Append(value.ref, KeyStep(mapKeyValue)),
                        type |-> valueType.elem.elem,
                        valid |-> TRUE, canSet |-> TRUE],
              remainder |-> SliceTo(path, mapKeyIndex),
              err |-> FALSE, panic |-> FALSE]

(***************************************************************************)
(* Dispatch (src/snmpmagic/base.go, HandlePDU)                             *)
(***************************************************************************)
\* value.Field(i) panics unless value is a struct with more than i fields.
CanField(value, i) == value.valid /\ value.type.kind = "struct" /\ i < Len(value.type.fields)

Field(value, i) ==
    [ref |-> Append(value.ref, FieldStep(i)),
     type |-> value.type.fields[i + 1].type,
     valid |-> TRUE,
     canSet |-> value.canSet /\ ~value.type.fields[i + 1].lowerFirst]

\* What HandlePDU ends with: the destination afterwards, whether an error is
\* returned, whether it panicked, whether it never returns.
Outcome(dest, err, panic, hang) == [dest |-> dest, err |-> err, panic |-> panic, hang |-> hang]

RECURSIVE HandleLoop(_, _, _, _, _)
\* One pass of the loop `for node != nil`, and the passes after it. A pass
\* that ends in the state it started in is followed by the same pass for
\* ever: the call never returns.
HandleLoop(dest, pdu, node, remainder, value0) ==
    LET value1 == Deref(value0)
        fieldPanics == node.fieldIndex >= 0 /\ ~CanField(value1, node.fieldIndex)
        value2 == IF node.fieldIndex >= 0 THEN Field(value1, node.fieldIndex) ELSE value1
        row == getOrCreateMapElement(dest, value2, remainder)
        isMap == IsSuffixCatching(node)
        dest3 == IF isMap THEN row.dest ELSE dest
        value3 == IF isMap THEN row.elem ELSE value2
        remainder3 == IF isMap THEN row.remainder ELSE remainder
        set == deserializePDUToValue(dest3, pdu, value3)
        next == FindNext(node, remainder3)
    IN  IF fieldPanics THEN Outcome(dest, FALSE, TRUE, FALSE)
        ELSE IF isMap /\ row.panic THEN Outcome(row.dest, FALSE, TRUE, FALSE)
        ELSE IF isMap /\ row.err THEN Outcome(row.dest, FALSE, FALSE, FALSE)
        ELSE IF IsLeaf(node) /\ Len(remainder3) = 0
        THEN Outcome(set.dest, FALSE, set.panic, FALSE)
        ELSE IF ~next.found THEN Outcome(dest3, FALSE, FALSE, FALSE)
        ELSE IF next.next = node /\ next.remainder = remainder /\ value3 = value0
                /\ dest3 = dest
        THEN Outcome(dest3, FALSE, FALSE, TRUE)
        ELSE HandleLoop(dest3, pdu, next.next, next.remainder, value3)

\* HandlePDU of a walker with trie oidTree and a destination of type
\* destType holding dest.
HandlePDU(oidTree, destType, dest, pdu) ==
    LET path == ParseOID(pdu.name)
    IN  IF path.err THEN Outcome(dest, TRUE, FALSE, FALSE)
        ELSE HandleLoop(dest, pdu, oidTree, path.oid, ValueOfDestination(destType))

(***************************************************************************)
(* The record types given to the walker. Tags are written as in the        *)
(* source of a caller: `snmp:".1.2"` is the text .1.2.                     *)
(***************************************************************************)
\* type Row struct { A int `snmp:"2"`; B int `snmp:"3"` }
RowT ==
    StructT(10, <<FieldT(1, FALSE, <<"2">>, ScalarT("int")),
                  FieldT(2, FALSE, <<"3">>, ScalarT("int"))>>)

\* type Table struct { M map[uint]*Row `snmp:".1.2"` }
TableT == StructT(11, <<FieldT(1, FALSE, <<".", "1", ".", "2">>, MapT("uint", PtrT(RowT)))>>)

\* type WideRow struct { A int `snmp:"2.5"`; B bool `snmp:"3"` }
WideRowT ==
    StructT(12, <<FieldT(1, FALSE, <<"2", ".", "5">>, ScalarT("int")),
                  FieldT(2, FALSE, <<"3">>, ScalarT("bool"))>>)

\* type WideTable struct { M map[uint]*WideRow `snmp:".1.2"` }
WideTableT == StructT(13, <<FieldT(1, FALSE, <<".", "1", ".", "2">>, MapT("uint", PtrT(WideRowT)))>>)

\* type IfEntry struct { Descr string `snmp:"2"`; Mtu int32 `snmp:"4"` }
IfEntryT ==
    StructT(14, <<FieldT(1, FALSE, <<"2">>, ScalarT("string")),
                  FieldT(2, FALSE, <<"4">>, ScalarT("int32"))>>)

\* type IfXEntry struct { Name string `snmp:"1"`; Promiscuous bool `snmp:"16"` }
IfXEntryT ==
    StructT(15, <<FieldT(1, FALSE, <<"1">>, ScalarT("string")),
                  FieldT(2, FALSE, <<"1", "6">>, ScalarT("bool"))>>)

\* type Optics struct {
\*     Interface   map[uint]*IfEntry    `snmp:".1.3.6.1.2.1.2.2.1"`
\*     InterfaceHC map[string]*IfXEntry `snmp:".1.3.6.1.2.1.31.1.1.1"` }
\* (OpticsMIB of src/main.go, shortened; one map keyed by string)
OpticsT ==
    StructT(16, <<FieldT(1, FALSE, <<".", "1", ".", "3", ".", "6", ".", "1", ".", "2", ".", "1", ".", "2", ".", "2", ".", "1">>, MapT("uint", PtrT(IfEntryT))),
                  FieldT(2, FALSE, <<".", "1", ".", "3", ".", "6", ".", "1", ".", "2", ".", "1", ".", "3", "1", ".", "1", ".", "1", ".", "1">>, MapT("string", PtrT(IfXEntryT)))>>)

\* type System struct { Up bool `snmp:".1.1"`; Info Info `snmp:".1.4"` }
\* type Info struct { Count int `snmp:"1"`; M map[uint]*Row `snmp:"2"` }
InfoT ==
    StructT(17, <<FieldT(1, FALSE, <<"1">>, ScalarT("int")),
                  FieldT(2, FALSE, <<"2">>, MapT("uint", PtrT(RowT)))>>)

SystemT ==
    StructT(18, <<FieldT(1, FALSE, <<".", "1", ".", "1">>, ScalarT("bool")),
                  FieldT(2, FALSE, <<".", "1", ".", "4">>, InfoT)>>)

\* type Odd struct {
\*     ByInt  map[int]*Row `snmp:".1.1"`   // key neither string nor uint
\*     ByVal  map[uint]Row `snmp:".1.2"`   // element no pointer
\*     Status int          `snmp:".2.1"` }
OddT ==
    StructT(19, <<FieldT(1, FALSE, <<".", "1", ".", "1">>, MapT("int", PtrT(RowT))),
                  FieldT(2, FALSE, <<".", "1", ".", "2">>, MapT("uint", RowT)),
                  FieldT(3, FALSE, <<".", "2", ".", "1">>, ScalarT("int"))>>)

\* type BadTop struct { X int `snmp:".1.x"`; Y int `snmp:".1.2"` }
BadTopT ==
    StructT(20, <<FieldT(1, FALSE, <<".", "1", ".", "x">>, ScalarT("int")),
                  FieldT(2, FALSE, <<".", "1", ".", "2">>, ScalarT("int"))>>)

\* type BadRow struct { A int `snmp:"2"`; B int `snmp:"3..4"` }
BadRowT ==
    StructT(21, <<FieldT(1, FALSE, <<"2">>, ScalarT("int")),
                  FieldT(2, FALSE, <<"3", ".", ".", "4">>, ScalarT("int"))>>)

\* type BadTable struct { M map[uint]*BadRow `snmp:".1.2"` }
BadTableT == StructT(22, <<FieldT(1, FALSE, <<".", "1", ".", "2">>, MapT("uint", PtrT(BadRowT)))>>)

\* type BadInner struct { S BadRow `snmp:".1.2"` }
BadInnerT == StructT(23, <<FieldT(1, FALSE, <<".", "1", ".", "2">>, BadRowT)>>)

\* type Shadowed struct { A int `snmp:".1.2.3"`; S Row `snmp:".1.2"` }
\* (the second path is a proper prefix of the first)
ShadowedT ==
    StructT(24, <<FieldT(1, FALSE, <<".", "1", ".", "2", ".", "3">>, ScalarT("int")),
                  FieldT(2, FALSE, <<".", "1", ".", "2">>, RowT)>>)

\* type GapRow struct { A int `snmp:"2"`; Gap int; B int `snmp:"3"` }
GapRowT ==
    StructT(40, <<FieldT(1, FALSE, <<"2">>, ScalarT("int")),
                  FieldT(2, FALSE, <<>>, ScalarT("int")),
                  FieldT(3, FALSE, <<"3">>, ScalarT("int"))>>)

\* type GapTable struct { M map[uint]*GapRow `snmp:".1.2"`; After int `snmp:".1.5"`;
\*     Gap int; Never int `snmp:".1.6"` }
GapTableT ==
    StructT(41, <<FieldT(1, FALSE, <<".", "1", ".", "2">>, MapT("uint", PtrT(GapRowT))),
                  FieldT(2, FALSE, <<".", "1", ".", "5">>, ScalarT("int")),
                  FieldT(3, FALSE, <<>>, ScalarT("int")),
                  FieldT(4, FALSE, <<".", "1", ".", "6">>, ScalarT("int"))>>)

\* type JuniperLaneDOMEntry struct { RxLaserPower int32 `snmp:"6"`;
\*     TxLaserBiasCurrent int32 `snmp:"7"` }
JuniperLaneDOMEntryT ==
    StructT(50, <<FieldT(1, FALSE, <<"6">>, ScalarT("int32")),
                  FieldT(2, FALSE, <<"7">>, ScalarT("int32"))>>)

\* type JuniperModuleLaneDOMEntry struct { Entries map[uint]*JuniperLaneDOMEntry `snmp:"1"` }
JuniperModuleLaneDOMEntryT ==
    StructT(51, <<FieldT(1, FALSE, <<"1">>, MapT("uint", PtrT(JuniperLaneDOMEntryT)))>>)

\* type OpticsMIB struct { JuniperLaneDOM map[uint]*JuniperModuleLaneDOMEntry `snmp:".1.5"` }:
\* a mapping at P = .1.5 of records that hold a mapping.
OpticsMIBT ==
    StructT(52, <<FieldT(1, FALSE, <<".", "1", ".", "5">>,
                         MapT("uint", PtrT(JuniperModuleLaneDOMEntryT)))>>)

(***************************************************************************)
(* Trie cache and walker construction (BuildOIDTree, NewSNMPMagic)         *)
(***************************************************************************)
\* A trie with its identity as a heap object: id names the call that
\* allocated it. NoTree is the nil *OIDTree.
TreeObject(id, root) == [id |-> id, root |-> root]

NoTree == TreeObject(0, NewOIDTree)

\* sync.Map with the keys stored so far: make of an empty one, Load and
\* LoadOrStore.
EmptySyncMap == [k \in {} |-> NoTree]

Load(m, key) ==
    IF key \in DOMAIN m THEN [value |-> m[key], ok |-> TRUE]
    ELSE [value |-> NoTree, ok |-> FALSE]

LoadOrStoreOverwriting(m, key, value) ==
    [m |-> [k \in DOMAIN m \cup {key} |-> IF k = key THEN value ELSE m[k]],
     actual |-> value, loaded |-> FALSE]

LoadOrStore(m, key, value) ==
    IF key \in DOMAIN m
    THEN [m |-> m, actual |-> m[key], loaded |-> TRUE]
    ELSE [m |-> m @@ (key :> value), actual |-> value, loaded |-> FALSE]

\* BuildOIDTree that builds and stores a trie on every call.
BuildOIDTreeAnew(m, id, t) ==
    LET built == prepare(NewOIDTree, t, <<>>, 0)
        stored == LoadOrStoreOverwriting(m, t, TreeObject(id, built.node))
    IN  IF built.panic
        THEN [m |-> m, oidTree |-> NoTree, err |-> FALSE, panic |-> TRUE]
        ELSE IF built.err
        THEN [m |-> m, oidTree |-> NoTree, err |-> TRUE, panic |-> FALSE]
        ELSE [m |-> stored.m, oidTree |-> stored.actual, err |-> FALSE, panic |-> FALSE]

\* BuildOIDTree run without interleaving, by call id on cache m with x of
\* type t (reflect.TypeOf(x), or x itself when it is a reflect.Type).
BuildOIDTree(m, id, t) ==
    LET cached == Load(m, t)
        built == prepare(NewOIDTree, t, <<>>, 0)
        stored == LoadOrStore(m, t, TreeObject(id, built.node))
    IN  IF cached.ok
        THEN [m |-> m, oidTree |-> cached.value, err |-> FALSE, panic |-> FALSE]
        ELSE IF built.panic
        THEN [m |-> m, oidTree |-> NoTree, err |-> FALSE, panic |-> TRUE]
        ELSE IF built.err
        THEN [m |-> m, oidTree |-> NoTree, err |-> TRUE, panic |-> FALSE]
        ELSE [m |-> stored.m, oidTree |-> stored.actual, err |-> FALSE, panic |-> FALSE]

\* NewSNMPMagic(dst) for dst of type dstType, on an empty cache: the walker,
\* or an error.
NewSNMPMagic(dstType) ==
    LET b == BuildOIDTree(EmptySyncMap, 1, dstType)
    IN  [magic |-> [oidTree |-> b.oidTree.root, destination |-> dstType, isFilled |-> 0],
         err |-> b.err, panic |-> b.panic]

(***************************************************************************)
(* State                                                                   *)
(***************************************************************************)
VARIABLES
    tree,                \* the trie under construction (an *OIDTree)
    inserted,            \* the entries Insert was called with, in order
    insertPanic,         \* whether an Insert call panicked
    oidTreeCacheByType,  \* the process-wide cache of BuildOIDTree
    build,               \* the calls of BuildOIDTree: [pc, t, oidTree, ret]
    magic,               \* the walker: [oidTree, destination (its type), isFilled]
    destination,         \* the record the walker's destination points to
    lastDispatch,        \* the last HandlePDU call: [n, pdu, before, outcome]
    query,               \* the calls of Query: their position and local variables
    client,              \* the transport: the calls made on it and their returns, in order
    text,                \* the last conversion of an OID or of a text: [from, to, back]
    pool                 \* main and its workers: the channels, the workers, the locals of main

trieVars == <<tree, inserted, insertPanic>>
cacheVars == <<oidTreeCacheByType, build>>
walkerVars == <<magic, destination, lastDispatch>>
queryVars == <<query, client>>
textVars == <<text>>
poolVars == <<pool>>
vars == <<trieVars, cacheVars, walkerVars, queryVars, textVars, poolVars>>

\* The parts of the state a specification does not use.
NoTrieState == tree = NewOIDTree /\ inserted = <<>> /\ insertPanic = FALSE
NoCacheState == oidTreeCacheByType = EmptySyncMap /\ build = <<>>
NoWalkerState == magic = NewSNMPMagic(PtrT(RowT)).magic /\ destination = Zero(RowT) /\ lastDispatch = <<>>
NoQueryState == query = <<>> /\ client = <<>>
NoTextState == text = <<>>
NoPoolState == pool = <<>>

(***************************************************************************)
(* Trie construction: any sequence of Insert calls on a new trie.          *)
(***************************************************************************)
\* The arcs of the short paths drawn as inputs.
Arcs == {1, 2}

RECURSIVE SeqsUpTo(_, _)
\* The sequences over S of length at most n.
SeqsUpTo(S, n) ==
    IF n = 0 THEN {<<>>}
    ELSE LET shorter == SeqsUpTo(S, n - 1)
         IN  shorter \cup {Append(s, x) : s \in {t \in shorter : Len(t) = n - 1}, x \in S}

ShortPaths == SeqsUpTo(Arcs, MaxPathLen)

\* The two tables of the "trie split" scenario: ifEntry and ifXEntry.
IfEntryPath == <<1, 3, 6, 1, 2, 1, 2, 2, 1>>
IfXEntryPath == <<1, 3, 6, 1, 2, 1, 31, 1, 1, 1>>
ScenarioPaths == {IfEntryPath, IfXEntryPath}

\* A schema entry, the arguments of one Insert call. The qualified name
\* stands for "Parent.Field": one name per declared path.
Entry(p, k) ==
    [path |-> p, fieldIndex |-> Len(p), fieldQualifiedName |-> <<0>> \o p, nodeType |-> k]

NodeTypes == {SimpleNode, SuffixCatcherNode, LeafNode}

InsertedPaths == {inserted[i].path : i \in 1..Len(inserted)}

TrieInit ==
    /\ tree = NewOIDTree
    /\ inserted = <<>>
    /\ insertPanic = FALSE
    /\ NoCacheState /\ NoWalkerState /\ NoQueryState /\ NoTextState /\ NoPoolState

\* One call tree.Insert(p, ...) with a path not inserted before. A panic ends
\* the construction (prepare does not recover).
InsertEntry(p, k) ==
    /\ ~insertPanic
    /\ Len(inserted) < MaxInserts
    /\ p \notin InsertedPaths
    /\ LET e == Entry(p, k)
           r == Insert(tree, e.path, e.fieldIndex, e.fieldQualifiedName, e.nodeType)
       IN  /\ tree' = r.node
           /\ insertPanic' = r.panic
           /\ inserted' = Append(inserted, e)
    /\ UNCHANGED <<poolVars, textVars, cacheVars, walkerVars, queryVars>>

TrieNext ==
    \/ \E p \in ShortPaths, k \in NodeTypes : InsertEntry(p, k)
    \/ \E p \in ScenarioPaths : InsertEntry(p, LeafNode)

SpecTrie == TrieInit /\ [][TrieNext]_vars

(***************************************************************************)
(* Concurrent BuildOIDTree calls on one cache. A call takes two steps: the *)
(* Load, then on a miss prepare (on a trie of its own) and LoadOrStore.    *)
(***************************************************************************)
\* Number of BuildOIDTree calls.
NBuildCalls == 2

BuildCalls == 1..NBuildCalls

\* The types of the values given to BuildOIDTree: records and pointers to
\* records.
BuildTypes ==
    {TableT, PtrT(TableT), PtrT(OpticsT), BadTopT, PtrT(BadTopT),
     BadTableT, BadInnerT, ShadowedT, GapTableT, PtrT(GapTableT)}

NoReturn == [returned |-> FALSE, oidTree |-> NoTree, err |-> FALSE]

Returned(oidTree, err) == [returned |-> TRUE, oidTree |-> oidTree, err |-> err]

CacheInit ==
    /\ oidTreeCacheByType = EmptySyncMap
    /\ build = [c \in BuildCalls |->
                   [pc |-> "idle", t |-> RowT, oidTree |-> NoTree, ret |-> NoReturn]]
    /\ NoTrieState /\ NoWalkerState /\ NoQueryState /\ NoTextState /\ NoPoolState

\* Lines 17-24: the type of x and the lookup in the cache.
BuildLoad(c, t) ==
    /\ build[c].pc = "idle"
    /\ LET cached == Load(oidTreeCacheByType, t)
       IN  build' = [build EXCEPT ![c] =
                        IF cached.ok
                        THEN [pc |-> "returned", t |-> t, oidTree |-> NoTree,
                              ret |-> Returned(cached.value, FALSE)]
                        ELSE [pc |-> "miss", t |-> t, oidTree |-> NoTree,
                              ret |-> NoReturn]]
    /\ UNCHANGED <<poolVars, textVars, oidTreeCacheByType, trieVars, walkerVars, queryVars>>

\* Lines 26-32: the construction of the trie and its publication.
BuildStore(c) ==
    /\ build[c].pc = "miss"
    /\ LET t == build[c].t
           built == prepare(NewOIDTree, t, <<>>, 0)
           oidTree == TreeObject(c, built.node)
           stored == LoadOrStore(oidTreeCacheByType, t, oidTree)
       IN  IF built.panic
           THEN /\ build' = [build EXCEPT ![c].pc = "panicked"]
                /\ UNCHANGED oidTreeCacheByType
           ELSE IF built.err
           THEN /\ build' = [build EXCEPT ![c].pc = "returned",
                                          ![c].oidTree = oidTree,
                                          ![c].ret = Returned(NoTree, TRUE)]
                /\ UNCHANGED oidTreeCacheByType
           ELSE /\ build' = [build EXCEPT ![c].pc = "returned",
                                          ![c].oidTree = oidTree,
                                          ![c].ret = Returned(stored.actual, FALSE)]
                /\ oidTreeCacheByType' = stored.m
    /\ UNCHANGED <<poolVars, textVars, trieVars, walkerVars, queryVars>>

CacheNext ==
    \/ \E c \in BuildCalls, t \in BuildTypes : BuildLoad(c, t)
    \/ \E c \in BuildCalls : BuildStore(c)

SpecCache == CacheInit /\ [][CacheNext]_vars

(***************************************************************************)
(* Dispatch: HandlePDU calls, one after the other, on a new walker.        *)
(***************************************************************************)
\* Number of HandlePDU calls.
MaxDispatches == 3

\* The record types of the destinations.
DispatchTypes == {TableT, WideTableT, SystemT, OddT, OpticsMIBT}

RECURSIVE NodeOIDs(_, _), ChildOIDs(_, _, _)
\* The absolute OIDs at which the nodes of a trie sit, and the OIDs that end
\* on the arc selecting a child.
ChildOIDs(self, at, ks) ==
    IF ks = {} THEN {}
    ELSE LET k == CHOOSE x \in ks : TRUE
         IN  {at \o <<k>>} \cup NodeOIDs(self.children[k], at \o <<k>>)
                \cup ChildOIDs(self, at, ks \ {k})

NodeOIDs(self, at) ==
    {at \o self.prefix} \cup ChildOIDs(self, at \o self.prefix, DOMAIN self.children)

\* The arcs that follow them in a PDU name: none, a row key, a row key and
\* an arc more, an unknown column of a row.
ExtraArcs == {<<>>, <<7>>, <<7, 9>>, <<9, 7>>}

PDUValues == {PDU(<<>>, "Integer", GoValue("int", 1)), PDU(<<>>, "Integer", GoValue("int", 42))}

NameOf(oid) == <<".">> \o OIDString(oid)

\* A name ParseOID rejects.
MalformedName == <<".", "1", ".", "x">>

PDUsNamed(names) == {[v EXCEPT !.name = n] : n \in names, v \in PDUValues}

PDUsFor(oidTree) ==
    PDUsNamed({NameOf(base \o extra) :
                  base \in {<<>>} \cup NodeOIDs(oidTree, <<>>), extra \in ExtraArcs}
              \cup {MalformedName})

\* lastDispatch before the first call, and after the n-th.
NoDispatch == <<>>

Dispatched == lastDispatch # NoDispatch

LastDispatch == lastDispatch[1]

Dispatches == IF Dispatched THEN LastDispatch.n ELSE 0

DispatchInit ==
    /\ \E t \in DispatchTypes :
          /\ magic = NewSNMPMagic(PtrT(t)).magic
          /\ destination = Zero(t)
    /\ lastDispatch = NoDispatch
    /\ NoTrieState /\ NoCacheState /\ NoQueryState /\ NoTextState /\ NoPoolState

\* One call magic.HandlePDU(pdu). After a call that panicked or that never
\* returns there is no other call.
Dispatch(pdu) ==
    /\ Dispatches < MaxDispatches
    /\ Dispatched => ~LastDispatch.outcome.panic /\ ~LastDispatch.outcome.hang
    /\ LET outcome == HandlePDU(magic.oidTree, magic.destination, destination, pdu)
       IN  /\ destination' = outcome.dest
           /\ lastDispatch' = <<[n |-> Dispatches + 1, pdu |-> pdu,
                                 before |-> destination, outcome |-> outcome]>>
    /\ UNCHANGED <<poolVars, textVars, magic, trieVars, cacheVars, queryVars>>

DispatchNext == \E pdu \in PDUsFor(magic.oidTree) : Dispatch(pdu)

SpecDispatch == DispatchInit /\ [][DispatchNext]_vars

(***************************************************************************)
(* Coercion: HandlePDU calls that reach deserializePDUToValue with every   *)
(* tag at fields of every scalar type, and the transport writing into the  *)
(* buffer of a PDU it delivered.                                           *)
(***************************************************************************)
MaxCoercions == 2
MaxWrites == 1

\* type Signed struct { Flag bool `snmp:".1.1"`; I int `snmp:".1.2"`;
\*     I8 int8 `snmp:".1.3"`; I16 int16 `snmp:".1.4"`; I32 int32 `snmp:".1.5"`;
\*     I64 int64 `snmp:".1.6"` }
SignedT ==
    StructT(30, <<FieldT(1, FALSE, <<".", "1", ".", "1">>, ScalarT("bool")),
                  FieldT(2, FALSE, <<".", "1", ".", "2">>, ScalarT("int")),
                  FieldT(3, FALSE, <<".", "1", ".", "3">>, ScalarT("int8")),
                  FieldT(4, FALSE, <<".", "1", ".", "4">>, ScalarT("int16")),
                  FieldT(5, FALSE, <<".", "1", ".", "5">>, ScalarT("int32")),
                  FieldT(6, FALSE, <<".", "1", ".", "6">>, ScalarT("int64"))>>)

\* type Unsigned struct { U uint `snmp:".1.1"`; U8 uint8 `snmp:".1.2"`;
\*     U16 uint16 `snmp:".1.3"`; U32 uint32 `snmp:".1.4"`; U64 uint64 `snmp:".1.5"` }
UnsignedT ==
    StructT(31, <<FieldT(1, FALSE, <<".", "1", ".", "1">>, ScalarT("uint")),
                  FieldT(2, FALSE, <<".", "1", ".", "2">>, ScalarT("uint8")),
                  FieldT(3, FALSE, <<".", "1", ".", "3">>, ScalarT("uint16")),
                  FieldT(4, FALSE, <<".", "1", ".", "4">>, ScalarT("uint32")),
                  FieldT(5, FALSE, <<".", "1", ".", "5">>, ScalarT("uint64"))>>)

\* type Text struct { S string `snmp:".1.1"`; B []byte `snmp:".1.2"`;
\*     W []int16 `snmp:".1.3"`; O snmpmagic.OID `snmp:".1.4"`;
\*     F float64 `snmp:".1.5"` }
TextT ==
    StructT(32, <<FieldT(1, FALSE, <<".", "1", ".", "1">>, ScalarT("string")),
                  FieldT(2, FALSE, <<".", "1", ".", "2">>, SliceT(ScalarT("uint8"))),
                  FieldT(3, FALSE, <<".", "1", ".", "3">>, SliceT(ScalarT("int16"))),
                  FieldT(4, FALSE, <<".", "1", ".", "4">>, OIDT),
                  FieldT(5, FALSE, <<".", "1", ".", "5">>, ScalarT("float64"))>>)

CoerceTypes == {SignedT, UnsignedT, TextT}

\* The payloads of the PDUs: numbers around the two a bool takes, octet
\* strings in arrays of the transport, object identifiers and a tag
\* deserializePDUToValue has no case for.
Payloads ==
    <<PDU(<<>>, "Integer", GoValue("int", 0)),
      PDU(<<>>, "Integer", GoValue("int", 1)),
      PDU(<<>>, "Integer", GoValue("int", 2)),
      PDU(<<>>, "Integer", GoValue("int", 3)),
      PDU(<<>>, "Integer", GoValue("int64", 42)),
      PDU(<<>>, "Counter32", GoValue("uint", 1)),
      PDU(<<>>, "Counter32", GoValue("uint", 2)),
      PDU(<<>>, "Counter32", GoValue("uint", 3)),
      PDU(<<>>, "Counter64", GoValue("uint64", 3)),
      PDU(<<>>, "Gauge32", GoValue("uint", 2)),
      PDU(<<>>, "TimeTicks", GoValue("uint", 1)),
      PDU(<<>>, "Uinteger32", GoValue("uint", 0)),
      PDU(<<>>, "OctetString", GoValue("[]byte", Bytes(TransportArray(1), <<>>))),
      PDU(<<>>, "OctetString", GoValue("[]byte", Bytes(TransportArray(2), <<104, 105>>))),
      PDU(<<>>, "ObjectIdentifier", GoValue("string", <<".", "1", ".", "3">>)),
      PDU(<<>>, "ObjectIdentifier", GoValue("string", <<"x">>)),
      PDU(<<>>, "IPAddress", GoValue("string", <<"1", ".", "2">>))>>

\* The PDU with payload j named after field i of the record.
Coercion(t, i, j) == [Payloads[j] EXCEPT !.name = t.fields[i].tag]

\* What the transport overwrites a buffer with.
Overwritten == <<120>>

RECURSIVE WriteArrayFields(_, _, _, _)
\* The value v of a struct type t after the write w of bytes into an array:
\* every []byte field that points into the array shows them.
WriteArrayFields(v, t, w, i) ==
    IF i > Len(t.fields) THEN <<>>
    ELSE <<IF IsBytesType(t.fields[i].type) /\ v[i].array = w.array
           THEN Bytes(w.array, w.bytes)
           ELSE v[i]>> \o WriteArrayFields(v, t, w, i + 1)

WriteArray(v, t, w) == WriteArrayFields(v, t, w, 1)

\* The writes of the transport into its arrays.
Writes == Len(client)

CoerceInit ==
    /\ \E t \in CoerceTypes :
          /\ magic = NewSNMPMagic(PtrT(t)).magic
          /\ destination = Zero(t)
    /\ lastDispatch = NoDispatch
    /\ query = <<>>
    /\ client = <<>>
    /\ NoTrieState /\ NoCacheState /\ NoTextState /\ NoPoolState

\* One call magic.HandlePDU(pdu) from the callback of BulkWalk.
Coerce(pdu) ==
    /\ Dispatches < MaxCoercions
    /\ Dispatched => ~LastDispatch.outcome.panic /\ ~LastDispatch.outcome.hang
    /\ LET outcome == HandlePDU(magic.oidTree, magic.destination, destination, pdu)
       IN  /\ destination' = outcome.dest
           /\ lastDispatch' = <<[n |-> Dispatches + 1, pdu |-> pdu,
                                 before |-> destination, outcome |-> outcome]>>
    /\ UNCHANGED <<poolVars, textVars, magic, trieVars, cacheVars, queryVars>>

\* After the callback returned, the transport reuses the buffer of the
\* octet string it delivered.
Overwrite ==
    /\ Dispatched
    /\ LastDispatch.pdu.type = "OctetString"
    /\ ~LastDispatch.outcome.panic /\ ~LastDispatch.outcome.hang
    /\ Writes < MaxWrites
    /\ LET w == Bytes(LastDispatch.pdu.value.v.array, Overwritten)
       IN  /\ client' = Append(client, w)
           /\ destination' = WriteArray(destination, magic.destination.elem, w)
    /\ UNCHANGED <<poolVars, textVars, magic, lastDispatch, query, trieVars, cacheVars>>

CoerceNext ==
    \/ \E i \in DOMAIN magic.destination.elem.fields, j \in DOMAIN Payloads :
          Coerce(Coercion(magic.destination.elem, i, j))
    \/ Overwrite

SpecCoerce == CoerceInit /\ [][CoerceNext]_vars

(***************************************************************************)
(* Sharing: walkers made by NewSNMPMagic on one cache, each holding the    *)
(* *OIDTree BuildOIDTree returned to it, and the operations that read it:  *)
(* HandlePDU, and PrefixPaths as Query and String call it. Here magic and  *)
(* destination are sequences, one element per walker.                      *)
(***************************************************************************)
ShareTypes == {TableT, SystemT}

\* The PDUs delivered to a walker: a row of every column and every node.
SharedPDUsFor(oidTree) ==
    PDUsNamed({NameOf(base \o <<7>>) : base \in NodeOIDs(oidTree, <<>>)})

Walkers == 1 .. Len(magic)

\* The operations on the walkers so far.
Operations == IF lastDispatch = NoDispatch THEN 0 ELSE lastDispatch[1].n

Operating ==
    /\ Operations < MaxDispatches
    /\ lastDispatch # NoDispatch => ~lastDispatch[1].panic /\ ~lastDispatch[1].hang

ShareInit ==
    /\ magic = <<>>
    /\ destination = <<>>
    /\ lastDispatch = NoDispatch
    /\ oidTreeCacheByType = EmptySyncMap
    /\ build = <<>>
    /\ NoTrieState /\ NoQueryState /\ NoTextState /\ NoPoolState

\* magic, err := NewSNMPMagic(&t{}) for one more walker.
NewWalker(t) ==
    /\ Len(magic) < NBuildCalls
    /\ LET b == BuildOIDTree(oidTreeCacheByType, Len(magic) + 1, PtrT(t))
       IN  /\ ~b.err /\ ~b.panic
           /\ oidTreeCacheByType' = b.m
           /\ magic' = Append(magic, [oidTree |-> b.oidTree, destination |-> PtrT(t),
                                      isFilled |-> 0])
           /\ destination' = Append(destination, Zero(t))
    /\ UNCHANGED <<poolVars, textVars, lastDispatch, build, trieVars, queryVars>>

\* magic.HandlePDU(pdu) on walker w.
WalkerHandlePDU(w, pdu) ==
    /\ Operating
    /\ LET outcome == HandlePDU(magic[w].oidTree.root, magic[w].destination,
                                destination[w], pdu)
       IN  /\ destination' = [destination EXCEPT ![w] = outcome.dest]
           /\ lastDispatch' = <<[n |-> Operations + 1, walker |-> w, paths |-> <<>>,
                                 panic |-> outcome.panic, hang |-> outcome.hang]>>
    /\ UNCHANGED <<poolVars, textVars, magic, cacheVars, trieVars, queryVars>>

\* magic.oidTree.PrefixPaths() on walker w, in one of the orders of the map
\* iteration.
WalkerPrefixPaths(w) ==
    /\ Operating
    /\ \E paths \in PrefixPathsOrders(magic[w].oidTree.root) :
          lastDispatch' = <<[n |-> Operations + 1, walker |-> w, paths |-> paths,
                             panic |-> FALSE, hang |-> FALSE]>>
    /\ UNCHANGED <<poolVars, textVars, magic, destination, cacheVars, trieVars, queryVars>>

ShareNext ==
    \/ \E t \in ShareTypes : NewWalker(t)
    \/ \E w \in Walkers : \E pdu \in SharedPDUsFor(magic[w].oidTree.root) :
          WalkerHandlePDU(w, pdu)
    \/ \E w \in Walkers : WalkerPrefixPaths(w)

SpecShare == ShareInit /\ [][ShareNext]_vars

(***************************************************************************)
(* Conversions: OID.String of an OID and ParseOID of the result, ParseOID  *)
(* of a text and OID.String of the result.                                 *)
(***************************************************************************)
MaxOIDLen == 2
MaxTextLen == 4

\* The arcs of the OIDs: of one, two and three digits.
OIDArcs == {0, 1, 12, 305}

\* The characters of the texts: the separator and digits.
TextChars == {".", "0", "1", "2"}

OIDInit ==
    /\ text = <<>>
    /\ NoTrieState /\ NoCacheState /\ NoWalkerState /\ NoQueryState /\ NoPoolState

\* ParseOID(oid.String())
FormatThenParse(oid) ==
    /\ text' = <<[from |-> "OID", oid |-> oid, str |-> OIDString(oid),
                  back |-> ParseOID(OIDString(oid))]>>
    /\ UNCHANGED <<poolVars, trieVars, cacheVars, walkerVars, queryVars>>

\* oid, err := ParseOID(str), and oid.String() when err is nil
ParseThenFormat(str) ==
    /\ LET parsed == ParseOID(str)
       IN  text' = <<[from |-> "string", str |-> str, parsed |-> parsed,
                      back |-> IF parsed.err THEN <<>> ELSE OIDString(parsed.oid)]>>
    /\ UNCHANGED <<poolVars, trieVars, cacheVars, walkerVars, queryVars>>

OIDNext ==
    \/ \E oid \in SeqsUpTo(OIDArcs, MaxOIDLen) : FormatThenParse(oid)
    \/ \E str \in SeqsUpTo(TextChars, MaxTextLen) : ParseThenFormat(str)

SpecOID == OIDInit /\ [][OIDNext]_vars

(***************************************************************************)
(* Query: concurrent calls of Query on one walker and one transport. The   *)
(* transport fails or not as it likes, and during a BulkWalk it hands PDUs *)
(* named below the root to HandlePDU.                                      *)
(***************************************************************************)
\* Number of Query calls.
NQueryCalls == 2

\* Number of PDUs delivered during one BulkWalk.
MaxDeliveries == 1

QueryCalls == 1..NQueryCalls

\* The record types of the destinations: two mappings, and one mapping with
\* a leaf on which dispatch panics.
QueryTypes == {OpticsT, WideTableT}

\* An error value; at tells the errors of the transport apart.
Err(kind, at) == [kind |-> kind, at |-> at]

NilError == Err("nil", 0)

AlreadyFilled == Err("snmpmagic: structure has already been filled", 0)

\* A call on the transport, or the return of a BulkWalk.
Event(op, by, arg, err) == [op |-> op, by |-> by, arg |-> arg, err |-> err]

\* atomic.CompareAndSwapInt32(addr, old, new): the value afterwards and
\* whether the swap happened.
CompareAndSwapAlways(value, old, new) == [value |-> new, swapped |-> TRUE]

CompareAndSwapInt32(value, old, new) ==
    IF value = old THEN [value |-> new, swapped |-> TRUE]
    ELSE [value |-> value, swapped |-> FALSE]

\* The deferred calls of a Query call, run when it returns or panics.
RunNoDeferred(deferred, by, log) == log

RECURSIVE RunDeferred(_, _, _)
RunDeferred(deferred, by, log) ==
    IF deferred = <<>> THEN log
    ELSE RunDeferred(SliceTo(deferred, Len(deferred) - 1), by,
                     Append(log, Event(deferred[Len(deferred)], by, <<>>, NilError)))

\* Whether the loop over rootOids goes on after a BulkWalk that returned err.
NeverReturnsError(err) == FALSE

ReturnsError(err) == err # NilError

\* The PDUs the transport delivers during the BulkWalk of rootOid: named by
\* rootOid and the arcs to a node below it, followed by a row key.
WalkPDUs(oidTree, rootOid) ==
    PDUsNamed({NameOf(base \o <<7>>) :
                  base \in {o \in NodeOIDs(oidTree, <<>>) : IsPrefixOf(rootOid, o)}})

NewCall == [pc |-> "idle", ret |-> NilError, deferred |-> <<>>, rootOids |-> <<>>,
            index |-> 0, delivered |-> 0]

QueryInit ==
    /\ \E t \in QueryTypes :
          /\ magic = NewSNMPMagic(PtrT(t)).magic
          /\ destination = Zero(t)
    /\ lastDispatch = NoDispatch
    /\ query = [c \in QueryCalls |-> NewCall]
    /\ client = <<>>
    /\ NoTrieState /\ NoCacheState /\ NoTextState /\ NoPoolState

\* Line 52: the one-shot check.
QueryCheck(c) ==
    /\ query[c].pc = "idle"
    /\ LET cas == CompareAndSwapInt32(magic.isFilled, 0, 1)
       IN  /\ magic' = [magic EXCEPT !.isFilled = cas.value]
           /\ query' = [query EXCEPT ![c] =
                           IF ~cas.swapped
                           THEN [@ EXCEPT !.pc = "returned", !.ret = AlreadyFilled]
                           ELSE [@ EXCEPT !.pc = "connect"]]
    /\ UNCHANGED <<poolVars, textVars, destination, lastDispatch, client, trieVars, cacheVars>>

\* Lines 56-61: Connect; after a failure the call returns its error, after a
\* success Close is deferred and PrefixPaths gives the roots.
QueryConnect(c, fails) ==
    /\ query[c].pc = "connect"
    /\ LET err == IF fails THEN Err("connect", Len(client) + 1) ELSE NilError
       IN  /\ client' = Append(client, Event("Connect", c, <<>>, err))
           /\ IF err # NilError
              THEN query' = [query EXCEPT ![c].pc = "returned", ![c].ret = err]
              ELSE \E rootOids \in PrefixPathsOrders(magic.oidTree) :
                       query' = [query EXCEPT ![c].pc = "loop",
                                              ![c].deferred = <<"Close">>,
                                              ![c].rootOids = rootOids]
    /\ UNCHANGED <<poolVars, textVars, walkerVars, trieVars, cacheVars>>

\* Line 62: the call of BulkWalk for the next root.
QueryBulkWalk(c) ==
    /\ query[c].pc = "loop"
    /\ query[c].index < Len(query[c].rootOids)
    /\ client' = Append(client, Event("BulkWalk", c,
                                      OIDString(query[c].rootOids[query[c].index + 1]),
                                      NilError))
    /\ query' = [query EXCEPT ![c].pc = "walking", ![c].delivered = 0]
    /\ UNCHANGED <<poolVars, textVars, walkerVars, trieVars, cacheVars>>

\* The transport calls self.HandlePDU(pdu). An error makes BulkWalk return
\* it; a panic unwinds Query, whose deferred calls run.
Deliver(c, pdu) ==
    /\ query[c].pc = "walking"
    /\ query[c].delivered < MaxDeliveries
    /\ pdu \in WalkPDUs(magic.oidTree, query[c].rootOids[query[c].index + 1])
    /\ LET outcome == HandlePDU(magic.oidTree, magic.destination, destination, pdu)
           err == Err("HandlePDU", Len(client) + 1)
           returned == Append(client, Event("BulkWalkReturn", c, <<>>, err))
       IN  /\ destination' = outcome.dest
           /\ lastDispatch' = <<[n |-> Dispatches + 1, pdu |-> pdu,
                                 before |-> destination, outcome |-> outcome]>>
           /\ IF outcome.hang
              THEN query' = [query EXCEPT ![c].pc = "hung"] /\ UNCHANGED client
              ELSE IF outcome.panic
              THEN /\ query' = [query EXCEPT ![c].pc = "panicked"]
                   /\ client' = RunDeferred(query[c].deferred, c, client)
              ELSE IF outcome.err /\ ReturnsError(err)
              THEN /\ query' = [query EXCEPT ![c].pc = "returned", ![c].ret = err]
                   /\ client' = RunDeferred(query[c].deferred, c, returned)
              ELSE /\ query' = [query EXCEPT ![c].delivered = @ + 1]
                   /\ UNCHANGED client
    /\ UNCHANGED <<poolVars, textVars, magic, trieVars, cacheVars>>

\* Lines 62-66: BulkWalk returns, with an error of the transport or without.
BulkWalkReturn(c, fails) ==
    /\ query[c].pc = "walking"
    /\ LET err == IF fails THEN Err("BulkWalk", Len(client) + 1) ELSE NilError
           returned == Append(client, Event("BulkWalkReturn", c, <<>>, err))
       IN  IF ReturnsError(err)
           THEN /\ query' = [query EXCEPT ![c].pc = "returned", ![c].ret = err]
                /\ client' = RunDeferred(query[c].deferred, c, returned)
           ELSE /\ query' = [query EXCEPT ![c].pc = "loop", ![c].index = @ + 1]
                /\ client' = returned
    /\ UNCHANGED <<poolVars, textVars, walkerVars, trieVars, cacheVars>>

\* Line 69: the end of the loop.
QueryReturn(c) ==
    /\ query[c].pc = "loop"
    /\ query[c].index >= Len(query[c].rootOids)
    /\ query' = [query EXCEPT ![c].pc = "returned", ![c].ret = NilError]
    /\ client' = RunDeferred(query[c].deferred, c, client)
    /\ UNCHANGED <<poolVars, textVars, walkerVars, trieVars, cacheVars>>

QueryNext ==
    \E c \in QueryCalls :
        \/ QueryCheck(c)
        \/ \E fails \in BOOLEAN : QueryConnect(c, fails)
        \/ QueryBulkWalk(c)
        \/ \E pdu \in PDUsFor(magic.oidTree) : Deliver(c, pdu)
        \/ \E fails \in BOOLEAN : BulkWalkReturn(c, fails)
        \/ QueryReturn(c)

SpecQuery == QueryInit /\ [][QueryNext]_vars

(***************************************************************************)
(* The schema a record type declares, read off its annotations: the leaf   *)
(* fields with their absolute OIDs, and the mapping fields whose shape     *)
(* dispatch rejects. Used to state the properties of dispatch.             *)
(***************************************************************************)
UnsignedOrString == {"string", "uint", "uint8", "uint16", "uint32", "uint64"}

WellFormedMap(t) ==
    /\ t.key \in UnsignedOrString
    /\ t.elem.kind = "ptr"
    /\ t.elem.elem.kind = "struct"

\* A mapping of the destination: its absolute OID P, its place in the
\* destination and the kind of its keys. NoMap: the field is in no mapping.
MapAt(P, ref, key) == [in |-> TRUE, P |-> P, ref |-> ref, key |-> key]

NoMap == [in |-> FALSE, P |-> <<>>, ref |-> <<>>, key |-> "uint"]

\* An entry of class "leaf", "record", "mapping" or "malformed map". oid is
\* its path (P ++ a for a leaf of the rows of the mapping at P), ref its
\* place in the row or in the destination.
SchemaEntry(class, oid, map, ref, type) ==
    [class |-> class, oid |-> oid, map |-> map, ref |-> ref, type |-> type]

RECURSIVE SchemaOf(_, _, _, _)
RECURSIVE FieldSchema(_, _, _, _)
FieldSchema(f, base, map, ref) ==
    IF f.tag = <<>> \/ f.lowerFirst \/ ParseOID(f.tag).err THEN {}
    ELSE LET at == base \o ParseOID(f.tag).oid
             ft == IF f.type.kind = "ptr" THEN f.type.elem ELSE f.type
         IN  IF ft.kind = "struct"
             THEN {SchemaEntry("record", at, map, ref, ft)} \cup SchemaOf(ft, at, map, ref)
             ELSE IF ft.kind = "map"
             THEN IF WellFormedMap(ft) /\ ~map.in
                  THEN {SchemaEntry("mapping", at, NoMap, ref, ft)}
                       \cup SchemaOf(ft.elem.elem, at, MapAt(at, ref, ft.key), <<>>)
                  ELSE {SchemaEntry("malformed map", at, NoMap, ref, ft)}
             ELSE {SchemaEntry("leaf", at, map, ref, ft)}

SchemaOf(t, base, map, ref) ==
    UNION {FieldSchema(t.fields[i], base, map, ref \o <<FieldStep(i - 1)>>) :
              i \in 1..Len(t.fields)}

\* The schema of the record the walker's destination points to.
Schema == SchemaOf(magic.destination.elem, <<>>, NoMap, <<>>)

\* OID o names leaf e: its path, followed by the row key under a mapping.
AddressesLeaf(o, e) ==
    /\ e.class = "leaf"
    /\ IF e.map.in THEN Len(o) = Len(e.oid) + 1 /\ IsPrefixOf(e.oid, o)
       ELSE o = e.oid

\* OID o has arcs after those that name leaf e.
BeyondLeaf(o, e) ==
    /\ e.class = "leaf"
    /\ IsPrefixOf(e.oid, o)
    /\ Len(o) > Len(e.oid) + (IF e.map.in THEN 1 ELSE 0)

\* OID o leads to the suffix-catcher of a mapping of a shape dispatch rejects.
ReachesMalformedMap(o, e) == e.class = "malformed map" /\ IsPrefixOf(e.oid, o)

\* o is the path of no entry, names no leaf and leads to none.
MatchesNoEntry(o) ==
    \A e \in Schema : o # e.oid /\ ~AddressesLeaf(o, e) /\ ~BeyondLeaf(o, e)
                      /\ ~ReachesMalformedMap(o, e)

Anomalous(o) ==
    \/ MatchesNoEntry(o)
    \/ \E e \in Schema : BeyondLeaf(o, e) \/ ReachesMalformedMap(o, e)

LastOID == ParseOID(LastDispatch.pdu.name)

ReturnedSuccess(outcome) == ~outcome.err /\ ~outcome.panic /\ ~outcome.hang

(***************************************************************************)
(* Properties of Query                                                     *)
(***************************************************************************)
\* The calls that passed the one-shot check.
PassedCheck ==
    {c \in DOMAIN query :
        query[c].pc # "idle" /\ ~(query[c].pc = "returned" /\ query[c].ret = AlreadyFilled)}

ReturnedQueries == {c \in DOMAIN query : query[c].pc = "returned"}

\* The calls of call c on the transport (and the returns of its BulkWalks)
\* among the operations ops.
EventsBy(c, ops) == SelectSeq(client, LAMBDA e : e.by = c /\ e.op \in ops)

TransportCalls == {"Connect", "BulkWalk", "Close"}

Walks == {"BulkWalk", "BulkWalkReturn"}

TransportFailed == \E i \in 1..Len(client) : client[i].err # NilError

\* C1: of the Query calls on one walker, run one after the other or
\* interleaved, exactly one passes the one-shot check; Connect is invoked at
\* most once; every other call returns the "already filled" error and
\* invokes nothing on the transport, whatever the first call returned; and
\* when the transport does not fail and all calls have returned, one
\* returned success and the others "already filled".
C1_OneShotQuery ==
    /\ Cardinality(PassedCheck) <= 1
    /\ (\E c \in DOMAIN query : query[c].pc # "idle") => Cardinality(PassedCheck) = 1
    /\ \A c \in DOMAIN query : Len(EventsBy(c, {"Connect"})) <= 1
    /\ \A c \in DOMAIN query \ PassedCheck :
           /\ EventsBy(c, TransportCalls) = <<>>
           /\ c \in ReturnedQueries => query[c].ret = AlreadyFilled
    /\ Len(SelectSeq(client, LAMBDA e : e.op = "Connect")) <= 1
    /\ (ReturnedQueries = DOMAIN query /\ DOMAIN query # {} /\ ~TransportFailed) =>
           \E c \in DOMAIN query :
               /\ query[c].ret = NilError
               /\ \A d \in DOMAIN query \ {c} : query[d].ret = AlreadyFilled

\* Two calls returned: one success after its BulkWalks, one "already filled".
C1_Witness ==
    \E c, d \in ReturnedQueries :
        /\ query[c].ret = NilError
        /\ EventsBy(c, {"BulkWalk"}) # <<>>
        /\ EventsBy(c, {"Close"}) # <<>>
        /\ query[d].ret = AlreadyFilled

\* C8 as stated: a call that passed the one-shot check and returned has
\* invoked Close, also after a failure of Connect.
C8_CloseOnEveryExit ==
    \A c \in PassedCheck \cap ReturnedQueries : EventsBy(c, {"Close"}) # <<>>

ConnectSucceeded(c) ==
    \E i \in 1..Len(client) :
        client[i].op = "Connect" /\ client[i].by = c /\ client[i].err = NilError

\* C8, amended: a call whose Connect succeeded invokes Close exactly once,
\* as its last call on the transport, when it returns (after the error of a
\* BulkWalk, or after all BulkWalks) or when a PDU callback panics, and not
\* before; a call whose Connect failed returns without invoking Close.
C8_CloseAfterConnect ==
    \A c \in PassedCheck :
        LET closes == EventsBy(c, {"Close"})
            calls == EventsBy(c, TransportCalls)
        IN  IF query[c].pc \in {"returned", "panicked"} /\ ConnectSucceeded(c)
            THEN Len(closes) = 1 /\ calls[Len(calls)].op = "Close"
            ELSE closes = <<>>

\* A call returned the error of a BulkWalk, and Close was invoked.
C8_Witness ==
    \E c \in PassedCheck \cap ReturnedQueries :
        /\ query[c].ret.kind = "BulkWalk"
        /\ EventsBy(c, {"Close"}) # <<>>

\* C9: the BulkWalks of a call are those of the roots PrefixPaths gave, in
\* its order, each issued after the one before has returned; a BulkWalk that
\* returns an error is the last one, and Query returns that error.
C9_SequentialWalksAbortOnError ==
    \A c \in PassedCheck :
        LET w == EventsBy(c, Walks)
            rootOids == query[c].rootOids
        IN  /\ ConnectSucceeded(c) => rootOids \in PrefixPathsOrders(magic.oidTree)
            /\ Len(w) <= 2 * Len(rootOids)
            /\ \A i \in 1..Len(w) :
                   IF i % 2 = 1
                   THEN w[i].op = "BulkWalk" /\ w[i].arg = OIDString(rootOids[(i + 1) \div 2])
                   ELSE /\ w[i].op = "BulkWalkReturn"
                        /\ w[i].err # NilError =>
                               /\ i = Len(w)
                               /\ c \in ReturnedQueries
                               /\ query[c].ret = w[i].err
            /\ (c \in ReturnedQueries /\ query[c].ret = NilError) => Len(w) = 2 * Len(rootOids)

\* The BulkWalk of the first of two roots returned an error, and so did
\* Query, without a BulkWalk for the second root.
C9_Witness ==
    \E c \in PassedCheck \cap ReturnedQueries :
        /\ Len(query[c].rootOids) = 2
        /\ Len(EventsBy(c, {"BulkWalk"})) = 1
        /\ query[c].ret.kind = "BulkWalk"

(***************************************************************************)
(* Properties of dispatch                                                  *)
(***************************************************************************)
IntegerKinds == {"int", "int32", "int64"}

\* The key of the row an OID names, as the mapping keeps it.
RowKey(e, o) == IF e.map.key = "string" THEN FormatUint(o[Len(o)]) ELSE o[Len(o)]

\* The other leaf fields of the rows of the mapping of leaf e.
OtherColumns(e) == {f \in Schema : f.class = "leaf" /\ f.map = e.map /\ f # e}

\* The last call dispatched an Integer PDU named P ++ a ++ [k] for the
\* integer leaf e of the rows of a mapping.
PopulatesRow(e) ==
    /\ Dispatched
    /\ e.class = "leaf" /\ e.map.in /\ e.type.kind \in IntegerKinds
    /\ LastDispatch.pdu.type = "Integer"
    /\ ~LastOID.err
    /\ AddressesLeaf(LastOID.oid, e)

\* The call returned, the mapping is there with row k, its leaf holds the
\* value of the PDU, and the other leaves of a row that was there are as
\* they were.
RowPopulated(e) ==
    LET k == RowKey(e, LastOID.oid)
        after == GetAt(destination, e.map.ref)
        before == GetAt(LastDispatch.before, e.map.ref)
    IN  /\ ReturnedSuccess(LastDispatch.outcome)
        /\ ~after.nil
        /\ k \in DOMAIN after.elems
        /\ GetAt(after.elems[k], e.ref) = LastDispatch.pdu.value.v
        /\ k \in DOMAIN before.elems =>
               \A f \in OtherColumns(e) :
                   GetAt(after.elems[k], f.ref) = GetAt(before.elems[k], f.ref)

\* C3: a PDU named P ++ a ++ [k], for a leaf annotated a (one or more arcs)
\* of the rows of the mapping at P, creates the mapping if it is null and
\* row k if absent, assigns its value to that leaf of row k, and leaves the
\* other leaves of row k unchanged.
C3_MapRowPopulation == \A e \in Schema : PopulatesRow(e) => RowPopulated(e)

\* What the code does: the same, for the leaves annotated with one arc.
RowPopulatedForOneArcLeaf ==
    \A e \in Schema :
        PopulatesRow(e) /\ Len(e.oid) = Len(e.map.P) + 1 => RowPopulated(e)

\* A second PDU reached a row the first one made.
RowPopulatedTwice ==
    \E e \in Schema :
        /\ PopulatesRow(e)
        /\ Len(e.oid) = Len(e.map.P) + 1
        /\ ~GetAt(LastDispatch.before, e.map.ref).nil
        /\ RowKey(e, LastOID.oid) \in DOMAIN GetAt(LastDispatch.before, e.map.ref).elems
        /\ \E f \in OtherColumns(e) :
               GetAt(destination, e.map.ref).elems[RowKey(e, LastOID.oid)][f.ref[1].at + 1] # 0

\* C10: a PDU whose OID (not the empty one) matches no schema entry, or has
\* arcs beyond a leaf, or reaches a suffix-catcher of a malformed mapping,
\* makes dispatch return success: no error, no panic, and it does return.
C10_AnomaliesNeverAbort ==
    Dispatched /\ ~LastOID.err /\ LastOID.oid # <<>> /\ Anomalous(LastOID.oid) =>
        ReturnedSuccess(LastDispatch.outcome)

\* What the code does: success for the anomalous PDUs with an OID below a
\* mapping of the schema, of any shape.
AnomaliesBelowMappingsSucceed ==
    Dispatched /\ ~LastOID.err /\ Anomalous(LastOID.oid)
        /\ (\E e \in Schema : e.class \in {"mapping", "malformed map"}
                              /\ IsProperPrefixOf(e.oid, LastOID.oid))
        => ReturnedSuccess(LastDispatch.outcome)

(***************************************************************************)
(* Properties of the trie cache                                            *)
(***************************************************************************)
ReturnedCalls == {c \in DOMAIN build : build[c].ret.returned}

\* The calls that returned a trie for type t.
CallsReturningTreeOf(t) ==
    {c \in ReturnedCalls : build[c].t = t /\ ~build[c].ret.err}

SameInstanceReturned ==
    \A c \in ReturnedCalls :
        ~build[c].ret.err =>
            /\ build[c].t \in DOMAIN oidTreeCacheByType
            /\ build[c].ret.oidTree = oidTreeCacheByType[build[c].t]
            /\ \A d \in CallsReturningTreeOf(build[c].t) :
                   build[d].ret.oidTree = build[c].ret.oidTree

CacheEntryKept ==
    \A t \in DOMAIN oidTreeCacheByType :
        /\ t \in DOMAIN oidTreeCacheByType'
        /\ oidTreeCacheByType'[t] = oidTreeCacheByType[t]

\* C6: in any interleaving of BuildOIDTree calls, the calls on one type all
\* return the one trie instance published in the cache, a call that built a
\* trie but lost the store race included, and a cache entry once set is never
\* replaced.
C6_TrieCacheConcurrency == []SameInstanceReturned /\ [][CacheEntryKept]_vars

\* Two calls on one type both missed and both built a trie; the second to
\* store returned the trie of the first.
C6_Witness ==
    \E c, d \in ReturnedCalls :
        /\ c # d
        /\ build[c].t = build[d].t
        /\ build[d].oidTree = TreeObject(d, build[d].oidTree.root)
        /\ build[d].oidTree # NoTree
        /\ build[c].ret.oidTree.id = c
        /\ build[d].ret.oidTree.id = c
        /\ ~build[d].ret.err

\* Whether the introspection of t meets an annotation that ParseOID rejects.
MeetsUnparsableOID(t) == prepare(NewOIDTree, t, <<>>, 0).parseFailed

\* C7: a call of BuildOIDTree on a type whose introspection meets an
\* annotation that does not parse returns the error, and the cache holds no
\* trie for the type.
C7_SchemaErrorsReturned ==
    \A c \in ReturnedCalls :
        MeetsUnparsableOID(build[c].t) =>
            /\ build[c].ret.err
            /\ build[c].t \notin DOMAIN oidTreeCacheByType

\* What the code guarantees: the error is returned, and nothing cached, when
\* the annotation that does not parse is on a field of the record passed by
\* value; below a pointer or a nested record the error is dropped.
SchemaErrorAtTopLevelByValue ==
    \A c \in ReturnedCalls :
        build[c].ret.err =>
            /\ MeetsUnparsableOID(build[c].t)
            /\ build[c].t.kind = "struct"
            /\ build[c].ret.oidTree = NoTree
            /\ build[c].t \notin DOMAIN oidTreeCacheByType

(***************************************************************************)
(* Helpers of the trie properties                                          *)
(***************************************************************************)
Range(s) == {s[i] : i \in 1..Len(s)}

InsertedEntries == Range(inserted)

RECURSIVE Walk(_, _)
\* FindNext applied repeatedly from node with remainder rem, until it finds
\* no node or the remainder is empty.
Walk(node, rem) ==
    LET r == FindNext(node, rem)
    IN  IF ~r.found THEN [found |-> FALSE, node |-> node]
        ELSE IF r.remainder = <<>> THEN [found |-> TRUE, node |-> r.next]
        ELSE Walk(r.next, r.remainder)

\* The walk of e's path ends at a node with e's locator and kind.
LookupFinds(t, e) ==
    LET w == Walk(t, e.path)
    IN  /\ w.found
        /\ w.node.fieldIndex = e.fieldIndex
        /\ w.node.fieldQualifiedName = e.fieldQualifiedName
        /\ w.node.nodeType = e.nodeType

\* No inserted entry lies below an inserted leaf entry (such an Insert is
\* documented to panic).
NoEntryUnderLeaf ==
    \A e \in InsertedEntries, f \in InsertedEntries :
        e.nodeType = LeafNode => ~IsProperPrefixOf(e.path, f.path)

\* Every entry was inserted after the entries whose paths are proper prefixes
\* of its own (the order in which prepare inserts a record's fields).
PrefixFirstOrder ==
    \A i \in 1..Len(inserted), j \in 1..Len(inserted) :
        IsProperPrefixOf(inserted[i].path, inserted[j].path) => i < j

\* e is a mapping, or lies under an inserted mapping.
UnderMapping(e) ==
    \E m \in InsertedEntries :
        m.nodeType = SuffixCatcherNode /\ IsPrefixOf(m.path, e.path)

\* The inserted mappings that lie under no other inserted mapping.
TopMappings ==
    {m \in InsertedEntries :
        /\ m.nodeType = SuffixCatcherNode
        /\ \A n \in InsertedEntries :
              n.nodeType = SuffixCatcherNode => ~IsProperPrefixOf(n.path, m.path)}

Covered(e) == \E p \in Range(PrefixPaths(tree)) : IsPrefixOf(p, e.path)

(***************************************************************************)
(* Properties of the trie (SpecTrie)                                       *)
(***************************************************************************)
\* C2 (as claimed): after inserting entries with pairwise distinct, non-empty
\* paths in any order, none of them below a leaf, the walk of every inserted
\* entry's path ends at a node with that entry's locator and kind.
C2_TrieCorrectAnyOrder ==
    NoEntryUnderLeaf /\ (\A e \in InsertedEntries : e.path # <<>>) =>
        \A e \in InsertedEntries : LookupFinds(tree, e)

\* The same when every Insert call returned: the lookups only fail after a
\* panic of Insert.
TrieCorrectWhenInsertsReturn ==
    ~insertPanic => \A e \in InsertedEntries : LookupFinds(tree, e)

\* Insert panics exactly when the new path lies below a leaf entry or is a
\* proper prefix of a path inserted before.
InsertPanicsExactlyWhen ==
    insertPanic <=>
        LET n == Len(inserted)
            last == inserted[n]
            before == {inserted[i] : i \in 1..(n - 1)}
        IN  /\ n >= 2
            /\ \/ \E e \in before : e.nodeType = LeafNode /\ IsProperPrefixOf(e.path, last.path)
               \/ \E e \in before : IsProperPrefixOf(last.path, e.path)

\* C4 (as claimed): every inserted entry has a prefix among PrefixPaths(),
\* and two leaf entries at ifEntry and ifXEntry give exactly these two paths.
C4_EveryEntryCovered ==
    ~insertPanic =>
        /\ \A e \in InsertedEntries : Covered(e)
        /\ (InsertedPaths = ScenarioPaths => Range(PrefixPaths(tree)) = ScenarioPaths)

\* C4 (amended): every inserted entry that is a mapping or lies under one
\* has a prefix among PrefixPaths(); an entry under no mapping has none, and
\* a trie of leaf entries only has no prefix path at all.
C4_MappingEntriesCovered ==
    ~insertPanic =>
        /\ \A e \in InsertedEntries : Covered(e) <=> UnderMapping(e)
        /\ ((\A e \in InsertedEntries : e.nodeType = LeafNode) => PrefixPaths(tree) = <<>>)

\* A mapping with an entry below it and a leaf beside it, all inserted.
C4_Witness ==
    /\ ~insertPanic
    /\ \E m \in InsertedEntries, e \in InsertedEntries, l \in InsertedEntries :
          /\ m.nodeType = SuffixCatcherNode
          /\ IsProperPrefixOf(m.path, e.path)
          /\ l.nodeType = LeafNode /\ ~UnderMapping(l)
    /\ PrefixPaths(tree) # <<>>

\* C5: PrefixPaths() returns, once each, the full paths of the mappings that
\* lie under no other mapping, and nothing else: no path inside a mapping,
\* no path of a leaf.
C5_MapCoverage ==
    ~insertPanic =>
        LET pp == PrefixPaths(tree)
        IN  /\ Range(pp) = {m.path : m \in TopMappings}
            /\ Len(pp) = Cardinality(TopMappings)
            /\ \A p \in Range(pp), m \in InsertedEntries :
                  m.nodeType = SuffixCatcherNode => ~IsProperPrefixOf(m.path, p)
            /\ \A e \in InsertedEntries : e.nodeType = LeafNode => e.path \notin Range(pp)

\* A mapping that was the root is moved below a split-created interior node,
\* and a second mapping lies inside the first.
C5_Witness ==
    /\ ~insertPanic
    /\ Len(inserted) = 3
    /\ inserted[1].nodeType = SuffixCatcherNode
    /\ tree.nodeType = SimpleNode /\ tree.fieldIndex = -1
    /\ \E m \in InsertedEntries : m.nodeType = SuffixCatcherNode /\ m \notin TopMappings
    /\ Len(PrefixPaths(tree)) = 1

(***************************************************************************)
(* Properties of the coercion (deserializePDUToValue)                      *)
(***************************************************************************)
SignedKinds == {"int", "int8", "int16", "int32", "int64"}

UnsignedKinds == {"uint", "uint8", "uint16", "uint32", "uint64"}

\* The tags and field types of the coercion table.
Acceptable(tag, t) ==
    \/ tag = "Integer" /\ t.kind \in SignedKinds \cup {"bool"}
    \/ tag \in UnsignedTags /\ t.kind \in UnsignedKinds \cup {"bool"}
    \/ tag = "OctetString" /\ (t.kind = "string" \/ IsBytesType(t))
    \/ tag = "ObjectIdentifier" /\ (t.kind = "string" \/ t = OIDT)

\* The field the last PDU is named after, and its values before and after
\* the call.
CoercedIndex ==
    CHOOSE i \in DOMAIN magic.destination.elem.fields :
        magic.destination.elem.fields[i].tag = LastDispatch.pdu.name

CoercedType == magic.destination.elem.fields[CoercedIndex].type

FieldBefore == LastDispatch.before[CoercedIndex]

FieldAfter == LastDispatch.outcome.dest[CoercedIndex]

Mismatched == Dispatched /\ ~Acceptable(LastDispatch.pdu.type, CoercedType)

\* C11: a PDU whose tag does not go with the type of the field it addresses
\* leaves the record as it was, and the call returns without an error.
C11_MismatchSkipsField ==
    Mismatched =>
        /\ ReturnedSuccess(LastDispatch.outcome)
        /\ LastDispatch.outcome.dest = LastDispatch.before

\* It does unless the field is a slice: an octet string into a slice of
\* anything but bytes panics.
MismatchSkipsFieldUnlessSlice ==
    Mismatched /\ ~(LastDispatch.pdu.type = "OctetString" /\ CoercedType.kind = "slice") =>
        /\ ReturnedSuccess(LastDispatch.outcome)
        /\ LastDispatch.outcome.dest = LastDispatch.before

OctetStringIntoOtherSlicePanics ==
    Mismatched /\ LastDispatch.pdu.type = "OctetString" /\ CoercedType.kind = "slice" =>
        LastDispatch.outcome.panic

\* The last PDU carries a number for a bool field.
NumberIntoBool ==
    /\ Dispatched
    /\ LastDispatch.pdu.type \in {"Integer"} \cup UnsignedTags
    /\ CoercedType.kind = "bool"

\* C12: a number into a bool field sets true for 1 and false for 2; for any
\* other number the call panics and the field keeps its value.
C12_BooleanCoercion ==
    NumberIntoBool =>
        LET n == LastDispatch.pdu.value.v
            outcome == LastDispatch.outcome
        IN  /\ n = 1 => ReturnedSuccess(outcome) /\ FieldAfter = TRUE
            /\ n = 2 => ReturnedSuccess(outcome) /\ FieldAfter = FALSE
            /\ n \in {1, 2} =>
                  outcome.dest = [LastDispatch.before EXCEPT ![CoercedIndex] = (n = 1)]
            /\ n \notin {1, 2} => outcome.panic /\ outcome.dest = LastDispatch.before

\* A field that holds true after a 1 keeps it when a Counter64 of 3 panics.
C12_Witness ==
    /\ NumberIntoBool
    /\ LastDispatch.pdu.type = "Counter64"
    /\ LastDispatch.pdu.value.v = 3
    /\ FieldBefore = TRUE
    /\ LastDispatch.outcome.panic
    /\ destination[CoercedIndex] = TRUE

\* The last PDU carries a number for an integer field of its signedness.
NumberIntoInteger ==
    /\ Dispatched
    /\ \/ LastDispatch.pdu.type = "Integer" /\ CoercedType.kind \in SignedKinds
       \/ LastDispatch.pdu.type \in UnsignedTags /\ CoercedType.kind \in UnsignedKinds

\* C13: an Integer is assigned to a signed integer field of any width, and
\* a Counter32, Counter64, Gauge32, TimeTicks or Uinteger32 to an unsigned
\* integer field of any width.
C13_IntegerWidths ==
    NumberIntoInteger =>
        /\ ReturnedSuccess(LastDispatch.outcome)
        /\ FieldAfter = LastDispatch.pdu.value.v

\* They are to the fields of 32 bits, of 64 bits and of the native width;
\* a field of 8 or of 16 bits is left as it was.
IntegerWidthsFrom32 ==
    NumberIntoInteger =>
        /\ ReturnedSuccess(LastDispatch.outcome)
        /\ IF CoercedType.kind \in {"int", "int32", "int64", "uint", "uint32", "uint64"}
           THEN FieldAfter = LastDispatch.pdu.value.v
           ELSE LastDispatch.outcome.dest = LastDispatch.before

\* The last PDU carries an octet string for a []byte field.
OctetStringIntoBytes ==
    /\ Dispatched
    /\ LastDispatch.pdu.type = "OctetString"
    /\ IsBytesType(CoercedType)

\* C14: after an octet string is dispatched into a []byte field, the field
\* holds the bytes of the payload in an array that is not the payload's, and
\* whatever the transport writes into the payload's array afterwards, the
\* record stays as the call left it.
C14_DefensiveCopy ==
    /\ OctetStringIntoBytes =>
          /\ ReturnedSuccess(LastDispatch.outcome)
          /\ FieldAfter.bytes = LastDispatch.pdu.value.v.bytes
          /\ FieldAfter.array # LastDispatch.pdu.value.v.array
          /\ destination[CoercedIndex] = FieldAfter
    /\ Dispatched /\ Writes > 0 => destination = LastDispatch.outcome.dest

\* The transport overwrote the array of a payload "hi" that the field holds.
C14_Witness ==
    /\ OctetStringIntoBytes
    /\ Writes > 0
    /\ client[Writes].array = LastDispatch.pdu.value.v.array
    /\ client[Writes].bytes # LastDispatch.pdu.value.v.bytes
    /\ destination[CoercedIndex].bytes = <<104, 105>>

(***************************************************************************)
(* Properties of the walkers sharing a trie                                *)
(***************************************************************************)
\* Every walker holds the trie the cache holds for its type, as it was when
\* the walker got it.
WalkersObserveCachedTrie ==
    \A w \in Walkers :
        /\ magic[w].destination \in DOMAIN oidTreeCacheByType
        /\ magic[w].oidTree = oidTreeCacheByType[magic[w].destination]

\* No step changes a node of a trie in the cache or of a trie a walker holds.
PublishedTriesKept ==
    /\ \A t \in DOMAIN oidTreeCacheByType :
          t \in DOMAIN oidTreeCacheByType' /\ oidTreeCacheByType'[t].root = oidTreeCacheByType[t].root
    /\ \A w \in Walkers : magic'[w].oidTree = magic[w].oidTree

RECURSIVE WithoutLeadingDots(_)
WithoutLeadingDots(str) ==
    IF str # <<>> /\ str[1] = "." THEN WithoutLeadingDots(Tail(str)) ELSE str

\* Decimal arcs without leading zeros, separated by single dots; or nothing.
DottedDecimal(str) ==
    \A i \in DOMAIN str :
        /\ str[i] = "." => i > 1 /\ i < Len(str) /\ str[i + 1] # "."
        /\ str[i] = "0" /\ (i = 1 \/ str[i - 1] = ".") => i = Len(str) \/ str[i + 1] = "."

Canonical(str) == DottedDecimal(WithoutLeadingDots(str))

Converted == text # <<>>

Conversion == text[1]

\* C16: ParseOID of the String of an OID is that OID, the empty one
\* included; and for a text of leading dots followed by dot-separated decimal
\* arcs without leading zeros, the String of its ParseOID is the text without
\* the leading dots.
C16_OIDRoundTrip ==
    Converted =>
        /\ Conversion.from = "OID" =>
              ~Conversion.back.err /\ Conversion.back.oid = Conversion.oid
        /\ Conversion.from = "string" /\ Canonical(Conversion.str) =>
              /\ ~Conversion.parsed.err
              /\ Conversion.back = WithoutLeadingDots(Conversion.str)

\* The text "..10": two leading dots and an arc of two digits.
C16_Witness ==
    /\ Converted
    /\ Conversion.from = "string"
    /\ Conversion.str = <<".", ".", "1", "0">>
    /\ Canonical(Conversion.str)
    /\ Conversion.parsed.oid = <<10>>
    /\ Conversion.back = <<"1", "0">>

\* A text that is not of that form is rejected, or comes back changed.
OtherTextsDoNotRoundTrip ==
    Converted /\ Conversion.from = "string" /\ ~Canonical(Conversion.str) =>
        \/ Conversion.parsed.err
        \/ Conversion.back # WithoutLeadingDots(Conversion.str)

(***************************************************************************)
(* Properties of HandlePDU: termination, assignments and what is left alone *)
(***************************************************************************)
\* C17: every call of HandlePDU comes to a return, whatever the trie and
\* the OID of the PDU.
C17_DispatchTerminates == Dispatched => ~LastDispatch.outcome.hang

\* It does on the tries that have no interior node with an empty prefix.
DispatchTerminatesWithoutEmptyPrefix ==
    Dispatched /\ magic.destination.elem # OddT => ~LastDispatch.outcome.hang

Leaves == {e \in Schema : e.class = "leaf"}

\* The rows the mapping of leaf e holds in record d.
Rows(d, e) == IF GetAt(d, e.map.ref).nil THEN {} ELSE DOMAIN GetAt(d, e.map.ref).elems

\* What leaf e holds in record d: in row k of its mapping (its zero value
\* when there is no such row), or in the record itself.
LeafIn(d, e, k) ==
    IF ~e.map.in THEN GetAt(d, e.ref)
    ELSE IF k \in Rows(d, e) THEN GetAt(GetAt(d, e.map.ref).elems[k], e.ref)
    ELSE Zero(e.type)

\* The keys under which leaf e may hold something: the rows of its mapping
\* before or after the call; 0 stands for the one place of a leaf in no mapping.
Places(e) ==
    IF e.map.in THEN Rows(LastDispatch.before, e) \cup Rows(LastDispatch.outcome.dest, e)
    ELSE {0}

\* The last call changed what leaf e holds at k.
Assigned(e, k) == LeafIn(LastDispatch.outcome.dest, e, k) # LeafIn(LastDispatch.before, e, k)

\* The OID of the last PDU is the full path of leaf e, followed by key k
\* when e is in a mapping.
Addressed(e, k) ==
    /\ ~LastOID.err
    /\ AddressesLeaf(LastOID.oid, e)
    /\ e.map.in => RowKey(e, LastOID.oid) = k

\* C18: HandlePDU assigns to a leaf only from a PDU whose OID is the full
\* path of that leaf followed by one key arc for the mapping it is in; a leaf
\* is never assigned from an OID that stops before the last arc of its
\* annotation.
C18_AssignmentSound ==
    Dispatched => \A e \in Leaves : \A k \in Places(e) : Assigned(e, k) => Addressed(e, k)

\* What the code does: a PDU whose OID is the full path of a leaf assigns to
\* no other leaf and to no other row.
AddressedLeafAloneAssigned ==
    Dispatched =>
        \A e \in Leaves : \A k \in Places(e) :
            Addressed(e, k) =>
                \A f \in Leaves : \A j \in Places(f) :
                    Assigned(f, j) => f = e /\ j = k

\* The last call returned without having assigned to any leaf.
NothingAssigned ==
    /\ Dispatched
    /\ ReturnedSuccess(LastDispatch.outcome)
    /\ \A e \in Leaves : \A k \in Places(e) : ~Assigned(e, k)

\* C19: a PDU that HandlePDU assigns to no leaf (an unknown column of a
\* mapping, an OID that leaves the prefix of a node, arcs beyond a leaf)
\* leaves the record as it was: no mapping is made and no row is added.
C19_UnassignedLeavesRecord ==
    NothingAssigned /\ ~LastOID.err /\ LastOID.oid # <<>> =>
        LastDispatch.outcome.dest = LastDispatch.before

\* The OID of the last PDU goes through the path of a map field.
BelowMapField ==
    \E m \in Schema : m.class \in {"mapping", "malformed map"} /\ IsPrefixOf(m.oid, LastOID.oid)

\* What the code does: the record is as it was unless the OID goes through
\* the path of a map field, or the root of the trie is a suffix-catcher.
UnassignedLeavesRecordOutsideMaps ==
    NothingAssigned /\ ~LastOID.err /\ ~BelowMapField /\ ~IsSuffixCatching(magic.oidTree) =>
        LastDispatch.outcome.dest = LastDispatch.before

(***************************************************************************)
(* Structure of the trie                                                   *)
(***************************************************************************)
RECURSIVE Nodes(_)
\* The nodes of the trie below and including self.
Nodes(self) == {self} \cup UNION {Nodes(self.children[k]) : k \in DOMAIN self.children}

\* The node has no locator: Insert made it to split a prefix.
SplitCreated(self) == self.fieldIndex = -1

\* No leaf has children; every node is simple, a suffix-catcher or a leaf; a
\* node made by a split is simple, has no name and separates at least two
\* children.
WellFormedNode(self) ==
    /\ IsLeaf(self) => DOMAIN self.children = {}
    /\ self.nodeType \in {SimpleNode, SuffixCatcherNode, LeafNode}
    /\ SplitCreated(self) =>
          /\ self.nodeType = SimpleNode
          /\ self.fieldQualifiedName = NoName
          /\ Cardinality(DOMAIN self.children) >= 2

TrieWellFormed ==
    ~insertPanic =>
        IF inserted = <<>> THEN tree = NewOIDTree
        ELSE \A n \in Nodes(tree) : WellFormedNode(n)

RECURSIVE InsertKeeps(_, _)
\* Node old and the node in its place after an Insert that returned: either
\* the prefix is the same, the locator and the kind are kept and so is every
\* child; or the node in its place is split-created and old, with its
\* locator, kind and children, is its child under the arc that followed the
\* common prefix, with the rest of the prefix.
InsertKeeps(old, new) ==
    IF new.prefix = old.prefix
    THEN /\ new.fieldIndex = old.fieldIndex
         /\ new.fieldQualifiedName = old.fieldQualifiedName
         /\ new.nodeType = old.nodeType
         /\ \A k \in DOMAIN old.children :
               k \in DOMAIN new.children /\ InsertKeeps(old.children[k], new.children[k])
    ELSE /\ SplitCreated(new)
         /\ new.nodeType = SimpleNode
         /\ new.fieldQualifiedName = NoName
         /\ IsProperPrefixOf(new.prefix, old.prefix)
         /\ LET key == old.prefix[Len(new.prefix) + 1]
            IN  /\ key \in DOMAIN new.children
                /\ new.children[key] =
                      [old EXCEPT !.prefix = SliceFrom(old.prefix, Len(new.prefix) + 1)]

InsertReturned == inserted' # inserted /\ ~insertPanic' /\ inserted # <<>>

\* C20: after any sequence of Insert calls that returned, no leaf has
\* children, every node is simple, a suffix-catcher or a leaf, a node made by
\* a split is simple without a locator, the node it displaced keeps its
\* locator, kind and children one level below, and the children of a node
\* are keyed by the distinct arcs that follow its prefix.
C20_TrieInvariants ==
    []TrieWellFormed /\ [][InsertReturned => InsertKeeps(tree, tree')]_vars

\* A leaf was displaced by a split and has a sibling below the node made.
C20_Witness ==
    /\ ~insertPanic
    /\ Len(inserted) >= 2
    /\ SplitCreated(tree)
    /\ \E k \in DOMAIN tree.children :
          /\ IsLeaf(tree.children[k])
          /\ tree.children[k].fieldIndex = inserted[1].fieldIndex
          /\ tree.children[k].prefix # <<>>
    /\ \E n \in Nodes(tree) : n # tree /\ SplitCreated(n)

(***************************************************************************)
(* Insert below a leaf                                                     *)
(***************************************************************************)
RECURSIVE TrieOf(_)
\* The trie after the Insert calls of the entries of es, in order, on a new
\* trie.
TrieOf(es) ==
    IF es = <<>> THEN NewOIDTree
    ELSE LET e == es[Len(es)]
         IN  Insert(TrieOf(SubSeq(es, 1, Len(es) - 1)), e.path, e.fieldIndex,
                    e.fieldQualifiedName, e.nodeType).node

\* The entries inserted before the last one.
InsertedBefore == SubSeq(inserted, 1, Len(inserted) - 1)

\* The last Insert was of a path that strictly extends the path of a leaf
\* entry inserted before.
InsertedBelowLeaf ==
    /\ Len(inserted) >= 2
    /\ \E e \in Range(InsertedBefore) :
          e.nodeType = LeafNode /\ IsProperPrefixOf(e.path, inserted[Len(inserted)].path)

\* C21: Insert of an entry whose path strictly extends the path of a leaf
\* entry panics, whatever was inserted before, and leaves the trie as it was:
\* every leaf is found at its path, still without children.
C21_InsertBelowLeafPanics ==
    InsertedBelowLeaf =>
        /\ insertPanic
        /\ tree = TrieOf(InsertedBefore)
        /\ \A e \in Range(InsertedBefore) :
              e.nodeType = LeafNode =>
                  /\ LookupFinds(tree, e)
                  /\ DOMAIN Walk(tree, e.path).node.children = {}

\* A leaf that a split had displaced, below a node with another child, and
\* an Insert below that leaf.
C21_Witness ==
    /\ InsertedBelowLeaf
    /\ Len(inserted) >= 3
    /\ insertPanic
    /\ SplitCreated(tree)
    /\ \E e \in Range(InsertedBefore) :
          /\ e.nodeType = LeafNode
          /\ IsProperPrefixOf(e.path, inserted[Len(inserted)].path)
          /\ e.path # <<>>

(***************************************************************************)
(* Introspection of records with a field that has no snmp tag              *)
(***************************************************************************)
\* The record type behind a pointer.
RecordOf(t) == IF t.kind = "ptr" THEN t.elem ELSE t

\* The record type below a field, if any.
RecordBelow(f) == RecordOf(IF f.type.kind = "map" THEN f.type.elem ELSE f.type)

KindOf(f) ==
    IF f.type.kind = "struct" THEN SimpleNode
    ELSE IF f.type.kind = "map" THEN SuffixCatcherNode
    ELSE LeafNode

RECURSIVE EntriesUpToGap(_, _, _, _)
\* The entries of the fields of record t from field i (1-based) up to its
\* first field without a tag, and of the records below these fields: path,
\* locator and kind.
EntriesUpToGap(t, parentName, base, i) ==
    IF i > Len(t.fields) \/ t.fields[i].tag = <<>> THEN {}
    ELSE LET f == t.fields[i]
             at == base \o ParseOID(f.tag).oid
         IN  {[path |-> at, fieldIndex |-> i - 1,
               fieldQualifiedName |-> <<parentName, f.name>>, nodeType |-> KindOf(f)]}
             \cup (IF KindOf(f) = LeafNode THEN {}
                   ELSE EntriesUpToGap(RecordBelow(f), RecordBelow(f).name, at, 1))
             \cup EntriesUpToGap(t, parentName, base, i + 1)

RECURSIVE NamesFromGap(_, _, _, _)
\* The names of the first field without a tag and of the fields declared
\* after it, in record t from field i and in the records below the fields
\* declared before it.
NamesFromGap(t, parentName, i, gap) ==
    IF i > Len(t.fields) THEN {}
    ELSE LET f == t.fields[i]
             from == gap \/ f.tag = <<>>
         IN  (IF from THEN {<<parentName, f.name>>} ELSE {})
             \cup (IF ~from /\ KindOf(f) # LeafNode
                   THEN NamesFromGap(RecordBelow(f), RecordBelow(f).name, 1, FALSE)
                   ELSE {})
             \cup NamesFromGap(t, parentName, i + 1, from)

\* parentName of the top-level call of prepare: "" for a record, the name of
\* the record for a pointer to it.
TopName(t) == IF t.kind = "ptr" THEN t.elem.name ELSE 0

\* The build calls that returned from the introspection of a record with a
\* field without a tag.
GapBuilds ==
    {c \in BuildCalls :
        /\ build[c].pc = "returned"
        /\ RecordOf(build[c].t) = GapTableT
        /\ build[c].oidTree # NoTree}

\* C22: the first field of a record without an snmp tag ends the
\* introspection of that record. The fields declared before it, the fields
\* of the records below them up to their own first field without a tag, and
\* the later fields of the enclosing record are in the trie; the field
\* without a tag and the fields declared after it in its record are not; and
\* no error is returned.
C22_UntaggedFieldEndsRecord ==
    \A c \in GapBuilds :
        LET t == build[c].t
            root == build[c].oidTree.root
        IN  /\ ~build[c].ret.err
            /\ \A e \in EntriesUpToGap(RecordOf(t), TopName(t), <<>>, 1) : LookupFinds(root, e)
            /\ \A n \in Nodes(root) :
                  n.fieldQualifiedName \notin NamesFromGap(RecordOf(t), TopName(t), 1, FALSE)
            /\ {n.fieldQualifiedName : n \in Nodes(root)} \ {NoName} =
                  {e.fieldQualifiedName : e \in EntriesUpToGap(RecordOf(t), TopName(t), <<>>, 1)}

\* The trie of *GapTable: M and After of the table and A of its rows are in
\* it; B of the rows and Never of the table are not.
C22_Witness ==
    \E c \in GapBuilds :
        LET root == build[c].oidTree.root
            names == {n.fieldQualifiedName : n \in Nodes(root)}
        IN  /\ build[c].t = PtrT(GapTableT)
            /\ build[c].ret.returned /\ ~build[c].ret.err
            /\ Walk(root, <<1, 5>>).found /\ IsLeaf(Walk(root, <<1, 5>>).node)
            /\ Walk(root, <<1, 2, 2>>).found /\ IsLeaf(Walk(root, <<1, 2, 2>>).node)
            /\ ~Walk(root, <<1, 2, 3>>).found
            /\ ~Walk(root, <<1, 6>>).found
            /\ <<41, 2>> \in names /\ <<40, 1>> \in names
            /\ <<40, 3>> \notin names /\ <<41, 4>> \notin names

(***************************************************************************)
(* Mappings of records that hold a mapping                                 *)
(***************************************************************************)
\* The last call was HandlePDU of a PDU named P ++ a ++ b ++ [i, j] on a
\* walker for *OpticsMIB: P = .1.5 the outer mapping, a = 1 the mapping of its
\* element record, b the annotation of a leaf of the inner element record.
NestedDispatched ==
    /\ Dispatched
    /\ magic.destination = PtrT(OpticsMIBT)
    /\ ~LastOID.err
    /\ Len(LastOID.oid) = 6
    /\ SubSeq(LastOID.oid, 1, 3) = <<1, 5, 1>>
    /\ LastOID.oid[4] \in {6, 7}

\* The field of JuniperLaneDOMEntry annotated b (1-based).
NestedLeaf == IF LastOID.oid[4] = 6 THEN 1 ELSE 2

NestedInnerKey == LastOID.oid[5]

NestedOuterKey == LastOID.oid[6]

\* Row k of mapping m, the zero record of type t when there is none.
RowOrZero(m, k, t) == IF ~m.nil /\ k \in DOMAIN m.elems THEN m.elems[k] ELSE Zero(t)

\* Mapping m with row k set to r.
WithRow(m, k, r) ==
    [nil |-> FALSE,
     elems |-> [x \in (IF m.nil THEN {} ELSE DOMAIN m.elems) \cup {k} |->
                   IF x = k THEN r ELSE m.elems[x]]]

\* The record before the last call with the PDU's value in the leaf of
\* outer[j].inner[i], the rows made where there were none.
NestedExpected ==
    LET before == LastDispatch.before
        outer == before[1]
        module == RowOrZero(outer, NestedOuterKey, JuniperModuleLaneDOMEntryT)
        lane == RowOrZero(module[1], NestedInnerKey, JuniperLaneDOMEntryT)
        lane2 == [lane EXCEPT ![NestedLeaf] = LastDispatch.pdu.value.v]
        module2 == [module EXCEPT ![1] = WithRow(module[1], NestedInnerKey, lane2)]
    IN  [before EXCEPT ![1] = WithRow(outer, NestedOuterKey, module2)]

\* C23: nested mappings take their keys from the end of the OID inwards.
\* HandlePDU of a PDU named P ++ a ++ b ++ [i, j] returns without an error,
\* keys the outer mapping by the last arc j and the inner mapping by the arc
\* i before it, and assigns the value to the leaf of outer[j].inner[i]; no
\* other row or leaf is made or changed.
C23_NestedKeysFromTheEnd ==
    NestedDispatched =>
        /\ ~LastDispatch.outcome.err
        /\ ~LastDispatch.outcome.panic
        /\ ~LastDispatch.outcome.hang
        /\ destination = NestedExpected
        /\ destination[1].elems[NestedOuterKey][1].elems[NestedInnerKey][NestedLeaf]
              = LastDispatch.pdu.value.v

\* A PDU named .1.5.1.6.7.9 after one named .1.5.1.6.9.7: row 9 of the
\* outer mapping holds row 7 of the inner one, next to outer row 7 with
\* inner row 9 and another value.
C23_Witness ==
    /\ NestedDispatched
    /\ LastOID.oid = <<1, 5, 1, 6, 7, 9>>
    /\ LastDispatch.pdu.value.v = 42
    /\ LastDispatch.n >= 2
    /\ DOMAIN LastDispatch.before[1].elems = {7}
    /\ DOMAIN destination[1].elems = {7, 9}
    /\ DOMAIN destination[1].elems[9][1].elems = {7}
    /\ DOMAIN destination[1].elems[7][1].elems = {9}
    /\ destination[1].elems[9][1].elems[7][1] = 42
    /\ destination[1].elems[7][1].elems[9][1] = 1

(***************************************************************************)
(* The worker pool of main (src/main.go): the hosts go to the workers      *)
(* through the channel work, the results come back through the channel     *)
(* results. pool is [hosts, concurrency, work, results, workers, output,   *)
(* currTask, inFlight, pc, closed, handed, received]: a channel is the      *)
(* sequence of what it buffers, an item the position of its host in hosts, *)
(* handed the log of the sends on work, received the positions whose       *)
(* result main received.                                                   *)
(***************************************************************************)
\* Length of the host list and value of the flag -concurrency.
MaxHosts == 3
MaxConcurrency == 2

HostNames == {"a", "b"}

\* cap(work) and cap(results).
Cap == pool.concurrency

\* A worker at `for host := range work`, at `results <- fetch(host, ...)`,
\* and after its loop ended.
Ranging == [pc |-> "range", task |-> 0]
Fetching(task) == [pc |-> "fetch", task |-> task]
Exited == [pc |-> "exited", task |-> 0]

\* What fetch returns for a host: the data of the device or an error.
DeviceData(host, err) == [Host |-> host, err |-> err]

PoolInit ==
    /\ \E hosts \in SeqsUpTo(HostNames, MaxHosts), concurrency \in 0..MaxConcurrency :
          pool = [hosts |-> hosts, concurrency |-> concurrency,
                  work |-> <<>>, results |-> <<>>,
                  workers |-> [w \in 1..concurrency |-> Ranging],
                  output |-> <<>>, currTask |-> 0, inFlight |-> 0,
                  pc |-> "for", closed |-> FALSE,
                  handed |-> <<>>, received |-> {}]
    /\ NoTrieState /\ NoCacheState /\ NoWalkerState /\ NoQueryState /\ NoTextState

\* The condition of the loop of main.
Distributing ==
    \/ pool.currTask < Len(pool.hosts)
    \/ Len(pool.work) > 0
    \/ pool.inFlight > 0
    \/ Len(pool.results) > 0

\* for ...: the loop goes on, or ends with close(work) and the encoding of
\* output.
LoopTest ==
    /\ pool.pc = "for"
    /\ pool' = IF Distributing
               THEN [pool EXCEPT !.pc = "select"]
               ELSE [pool EXCEPT !.pc = "done", !.closed = TRUE]
    /\ UNCHANGED <<trieVars, cacheVars, walkerVars, queryVars, textVars>>

\* case unit := <-results
Receive ==
    /\ pool.pc = "select"
    /\ pool.results # <<>>
    /\ LET unit == Head(pool.results)
       IN  pool' = [pool EXCEPT !.results = Tail(pool.results),
                                !.output = [h \in DOMAIN pool.output \cup {unit.data.Host} |->
                                               IF h = unit.data.Host THEN unit.data ELSE pool.output[h]],
                                !.inFlight = pool.inFlight - 1,
                                !.received = pool.received \cup {unit.task},
                                !.pc = "if"]
    /\ UNCHANGED <<trieVars, cacheVars, walkerVars, queryVars, textVars>>

\* default: time.Sleep
Sleep ==
    /\ pool.pc = "select"
    /\ pool.results = <<>>
    /\ pool' = [pool EXCEPT !.pc = "if"]
    /\ UNCHANGED <<trieVars, cacheVars, walkerVars, queryVars, textVars>>

\* if currTask < len(hosts) && len(work) <= cap(work)
MoreWorkUnchecked == pool.currTask < Len(pool.hosts) /\ Len(pool.work) <= Cap

\* if currTask < len(hosts) && len(work) < cap(work)
MoreWork == pool.currTask < Len(pool.hosts) /\ Len(pool.work) < Cap

IfMoreWork ==
    /\ pool.pc = "if"
    /\ pool' = [pool EXCEPT !.pc = IF MoreWork THEN "send" ELSE "for"]
    /\ UNCHANGED <<trieVars, cacheVars, walkerVars, queryVars, textVars>>

\* work <- hosts[currTask]; currTask += 1; inFlight += 1. The send blocks
\* while the buffer of work is full.
Send ==
    /\ pool.pc = "send"
    /\ Len(pool.work) < Cap
    /\ pool' = [pool EXCEPT !.work = Append(pool.work, pool.currTask + 1),
                            !.handed = Append(pool.handed, pool.currTask + 1),
                            !.currTask = pool.currTask + 1,
                            !.inFlight = pool.inFlight + 1,
                            !.pc = "for"]
    /\ UNCHANGED <<trieVars, cacheVars, walkerVars, queryVars, textVars>>

\* for host := range work: worker w takes a host.
Take(w) ==
    /\ pool.workers[w] = Ranging
    /\ pool.work # <<>>
    /\ pool' = [pool EXCEPT !.work = Tail(pool.work),
                            !.workers[w] = Fetching(Head(pool.work))]
    /\ UNCHANGED <<trieVars, cacheVars, walkerVars, queryVars, textVars>>

\* results <- fetch(host, snmpCommunity): fetch returned, and the send
\* blocks while the buffer of results is full.
SendResult(w) ==
    /\ pool.workers[w].pc = "fetch"
    /\ Len(pool.results) < Cap
    /\ \E err \in BOOLEAN :
          LET task == pool.workers[w].task
          IN  pool' = [pool EXCEPT !.results = Append(pool.results,
                                       [task |-> task, data |-> DeviceData(pool.hosts[task], err)]),
                                   !.workers[w] = Ranging]
    /\ UNCHANGED <<trieVars, cacheVars, walkerVars, queryVars, textVars>>

\* The loop of worker w ends: work is closed and empty.
Exit(w) ==
    /\ pool.workers[w] = Ranging
    /\ pool.closed /\ pool.work = <<>>
    /\ pool' = [pool EXCEPT !.workers[w] = Exited]
    /\ UNCHANGED <<trieVars, cacheVars, walkerVars, queryVars, textVars>>

Main == LoopTest \/ Receive \/ Sleep \/ IfMoreWork \/ Send

Worker(w) == w \in DOMAIN pool.workers /\ (Take(w) \/ SendResult(w) \/ Exit(w))

PoolNext ==
    \/ LoopTest
    \/ Receive
    \/ Sleep
    \/ IfMoreWork
    \/ Send
    \/ \E w \in DOMAIN pool.workers : Take(w)
    \/ \E w \in DOMAIN pool.workers : SendResult(w)
    \/ \E w \in DOMAIN pool.workers : Exit(w)

SpecPool == PoolInit /\ [][PoolNext]_vars

\* The goroutine of main and every worker goroutine get to run.
PoolFairness == WF_vars(Main) /\ \A w \in 1..MaxConcurrency : WF_vars(Worker(w))

SpecPoolFair == SpecPool /\ PoolFairness

(***************************************************************************)
(* The distribution of the hosts                                           *)
(***************************************************************************)
\* The positions of the hosts that are with the workers: in work, with a
\* worker that fetches, or in results.
PoolFetching == {w \in DOMAIN pool.workers : pool.workers[w].pc = "fetch"}

PoolPending == Len(pool.work) + Cardinality(PoolFetching) + Len(pool.results)

\* The hosts went to the workers one time each, in the order of the list.
HandedOnce ==
    /\ Len(pool.handed) = pool.currTask
    /\ pool.currTask <= Len(pool.hosts)
    /\ \A i \in DOMAIN pool.handed : pool.handed[i] = i

\* main is at `work <- hosts[currTask]` only when the buffer has room.
SendNeverBlocks == pool.pc = "send" => Len(pool.work) < Cap

\* inFlight counts the hosts handed out whose result is not yet received.
InFlightCounts ==
    /\ pool.inFlight >= 0
    /\ pool.inFlight = PoolPending
    /\ pool.inFlight = Len(pool.handed) - Cardinality(pool.received)

\* main left the loop.
PoolDone == pool.pc = "done"

\* After the loop every host of the list was handed out and its result is
\* in output.
DoneAfterAllReceived ==
    PoolDone =>
        /\ pool.currTask = Len(pool.hosts)
        /\ pool.received = DOMAIN pool.hosts
        /\ PoolPending = 0
        /\ \A i \in DOMAIN pool.hosts :
              pool.hosts[i] \in DOMAIN pool.output /\ pool.output[pool.hosts[i]].Host = pool.hosts[i]

PoolSafety == HandedOnce /\ SendNeverBlocks /\ InFlightCounts /\ DoneAfterAllReceived

\* C24: with concurrency >= 1 and every fetch returning, under fair
\* scheduling of main and the workers the distribution loop of main ends;
\* every host of the list is sent on work exactly once, and main is never
\* at the send with the buffer of work full; inFlight is never negative and
\* is the number of hosts handed out whose result is not yet received; and
\* when the loop has ended the result of every host handed out was received
\* into output.
C24_WorkerPool ==
    /\ [](pool.concurrency >= 1 => PoolSafety)
    /\ <>(pool.concurrency >= 1 => PoolDone)

\* main left the loop after three hosts, two of them the same, went through
\* two workers and one fetch returned an error.
C24_Witness ==
    /\ PoolDone
    /\ pool.concurrency = 2
    /\ pool.hosts = <<"a", "b", "a">>
    /\ pool.handed = <<1, 2, 3>>
    /\ pool.received = {1, 2, 3}
    /\ pool.inFlight = 0
    /\ DOMAIN pool.output = {"a", "b"}
    /\ pool.output["b"].err /\ ~pool.output["a"].err
    /\ \A w \in DOMAIN pool.workers : pool.workers[w] = Exited

\* Does not hold: with concurrency 0 nothing is ever sent, and the loop
\* never ends for a list with a host.
LoopEndsWithoutWorkers == <>PoolDone

====
